---- MODULE Spec2Model ----
(***************************************************************************)
(* A model of graphql_compiler/compiler/emit_sql.py: the SQL emission      *)
(* stage that turns a tree of SqlNodes into one relational query.          *)
(*                                                                         *)
(* The module holds several specifications over one set of variables:      *)
(*   SpecJoin      join resolution between two adjacent scopes             *)
(*   SpecRecursion evaluation of the recursive CTE that                    *)
(*                 _create_recursive_clause emits                          *)
(*   SpecEmit      emit_code_from_ir on a tree, run up to MaxRuns times,   *)
(*                 and the execution of the query the first run emitted    *)
(* A specification leaves the variables of the others at Idle.             *)
(***************************************************************************)
EXTENDS Integers, Sequences, FiniteSets, TLC

VARIABLES
    jin,        \* SpecJoin: the two scopes and the metadata of one resolution
    jres,       \* SpecJoin: what _get_join_condition returned or raised
    rin,        \* SpecRecursion: the Recurse block, its table and the link values
    rnames,     \* SpecRecursion: the column names the clause was built from
    rcte,       \* SpecRecursion: the rows of the recursive CTE so far
    rwork,      \* SpecRecursion: the rows the last iteration produced
    rphase,     \* SpecRecursion: "names", "anchor", "recursive", "done" or "raised"
    riter,      \* SpecRecursion: the iterations of the recursive term that produced rows
    tin,        \* SpecEmit: the tree as supplied and the kind of its dictionaries
    tree,       \* SpecEmit: the parts of the tree a compilation writes
    ctx,        \* SpecEmit: the CompilationContext of the compilation in progress
    stack,      \* SpecEmit: the call stack of the compilation in progress
    runs,       \* SpecEmit: the outcome of each compilation so far
    db,         \* SpecEmit: the database the emitted query is executed on
    mat,        \* SpecEmit: the rows of the CTEs evaluated so far
    result,     \* SpecEmit: the rows the emitted query returned
    xin,        \* SpecExpression: the predicate and the operator table
    xres        \* SpecExpression: what _expression_to_sql returned or raised

joinVars == <<jin, jres>>

recursionVars == <<rin, rnames, rcte, rwork, rphase, riter>>

compilationVars == <<tin, tree, ctx, stack, runs>>

executionVars == <<db, mat, result>>

expressionVars == <<xin, xres>>

vars == <<joinVars, recursionVars, compilationVars, executionVars, expressionVars>>

Idle == "idle"

JoinIdle == jin = Idle /\ jres = Idle

RecursionIdle ==
    /\ rin = Idle /\ rnames = Idle /\ rcte = Idle
    /\ rwork = Idle /\ rphase = Idle /\ riter = Idle

EmitIdle ==
    /\ tin = Idle /\ tree = Idle /\ ctx = Idle /\ stack = Idle /\ runs = Idle
    /\ db = Idle /\ mat = Idle /\ result = Idle

ExpressionIdle == xin = Idle /\ xres = Idle


(***************************************************************************)
(* Schema metadata. A table is named by its schema type (get_table) or by  *)
(* its junction name (has_table). A foreign key is one single-column       *)
(* constraint: column col of table tbl references column refcol of ref.    *)
(***************************************************************************)
INBOUND_EDGE_DIRECTION == "in"

Directions == {"out", "in"}

FK(tbl, col, ref, refcol) == [tbl |-> tbl, col |-> col, ref |-> ref, refcol |-> refcol]

\* An aliased table: table.alias() gives every call an object of its own.
Alias(tbl, id) == [tbl |-> tbl, id |-> id]

Col(sel, name) == [table |-> sel, name |-> name]

\* left == right, a sql_expressions.BinaryExpression
OnClause(left, right) == [kind |-> "binary", left |-> left, right |-> right]

Raise(exc) == [kind |-> "error", exc |-> exc]

NoneValue == [kind |-> "none"]

IsError(v) == v.kind = "error"

\* An edge name splits at "_" into the two lower-cased column prefixes.
Edge(name, first, second) == [name |-> name, first |-> first, second |-> second]

Animal_ParentOf == Edge("Animal_ParentOf", "animal", "parentof")
Animal_FriendsWith == Edge("Animal_FriendsWith", "animal", "friendswith")
Animal_LivesIn == Edge("Animal_LivesIn", "animal", "livesin")

\* str.startswith on the column names of the schema
StartsWith(name, prefix) ==
    \/ name = prefix
    \/ name = prefix \o "_id"
    \/ prefix = "animal" /\ name \in {"animal_id", "animal_id2"}

\* u'{column_prefix}_id'.format(...)
IdColumn(prefix) == prefix \o "_id"

short_junction_table_name(edge_name) == edge_name

long_junction_table_name(edge_name, type_name) == edge_name \o "_" \o type_name

has_table(md, name) == name \in md.tables

(***************************************************************************)
(* sqlalchemy's Join._joincond_scan_left_right(a, None, b, None): every    *)
(* pair (referenced column, foreign-key column) between a and b, under the *)
(* constraint it comes from. The second scan is skipped when a is b.       *)
(***************************************************************************)
JoincondScan(md, a, b) ==
    {[c |-> fk, left |-> Col(a, fk.refcol), right |-> Col(b, fk.col)] :
        fk \in {f \in md.fks : f.tbl = b.tbl /\ f.ref = a.tbl}}
    \cup
    (IF a # b
     THEN {[c |-> fk, left |-> Col(b, fk.refcol), right |-> Col(a, fk.col)] :
              fk \in {f \in md.fks : f.tbl = a.tbl /\ f.ref = b.tbl}}
     ELSE {})

_get_direct_onclauses(md, outer_selectable, inner_selectable) ==
    {OnClause(p.left, p.right) : p \in JoincondScan(md, outer_selectable, inner_selectable)}

\* join_condition raises NoForeignKeysError with no constraint and
\* AmbiguousForeignKeysError with several; both are caught and give None.
_try_get_direct_join_condition(md, outer_selectable, inner_selectable) ==
    LET pairs == JoincondScan(md, outer_selectable, inner_selectable)
        constraints == {p.c : p \in pairs}
        crit == {OnClause(p.left, p.right) : p \in pairs}
    IN  IF Cardinality(constraints) # 1 THEN NoneValue
        ELSE IF Cardinality(crit) = 1 THEN CHOOSE o \in crit : TRUE
        ELSE [kind |-> "list", clauses |-> crit]

_original_tables_equal(right_table, left_table) == right_table.tbl = left_table.tbl

_filter_onclauses_by_direction(onclauses, direction, inner_selectable, outer_selectable) ==
    LET inner == IF direction = INBOUND_EDGE_DIRECTION THEN outer_selectable ELSE inner_selectable
        outer == IF direction = INBOUND_EDGE_DIRECTION THEN inner_selectable ELSE outer_selectable
        kept == {o \in onclauses : o.right.table = inner /\ o.left.table = outer}
    IN  IF Cardinality(kept) # 1 THEN Raise("AssertionError")
        ELSE CHOOSE o \in kept : TRUE

_get_junction_join_condition(md, outer_selectable, inner_selectable, column_prefix) ==
    LET join_condition == _try_get_direct_join_condition(md, outer_selectable, inner_selectable)
        onclauses == _get_direct_onclauses(md, outer_selectable, inner_selectable)
        correct == {o \in onclauses : StartsWith(o.right.name, column_prefix)}
    IN  IF join_condition.kind # "none" THEN join_condition
        ELSE IF Cardinality(onclauses) = 1 THEN CHOOSE o \in onclauses : TRUE
        ELSE IF Cardinality(onclauses) = 2
             THEN IF Cardinality(correct) # 1 THEN Raise("AssertionError")
                  ELSE CHOOSE o \in correct : TRUE
        ELSE Raise("AssertionError")

\* A scope as join resolution sees it: its selectable, the schema type of its
\* location, and its block's edge name and direction.
Scope(selectable, type, edge, direction) ==
    [selectable |-> selectable, type |-> type, edge |-> edge, direction |-> direction]

\* Mutant of junction_table_choice: the ambiguity of two junction tables is
\* not detected and the type-suffixed table wins.
junction_table_choice_no_ambiguity(has_short_table_name, has_long_table_name) ==
    IF ~has_long_table_name /\ ~has_short_table_name THEN "none"
    ELSE IF has_long_table_name THEN "long"
    ELSE "short"

\* Mutant of junction_table_choice: a missing junction table is an error.
junction_table_choice_required(has_short_table_name, has_long_table_name) ==
    IF ~has_long_table_name /\ ~has_short_table_name THEN "raise"
    ELSE IF has_long_table_name /\ has_short_table_name THEN "raise"
    ELSE IF has_long_table_name THEN "long"
    ELSE "short"

\* Lines 500-506: neither table gives None, both raise, else the one present.
junction_table_choice(has_short_table_name, has_long_table_name) ==
    IF ~has_long_table_name /\ ~has_short_table_name THEN "none"
    ELSE IF has_long_table_name /\ has_short_table_name THEN "raise"
    ELSE IF has_long_table_name THEN "long"
    ELSE "short"

_try_get_many_to_many_join_condition(md, outer_node, inner_node, fresh) ==
    LET edge == inner_node.edge
        short == short_junction_table_name(edge.name)
        long == long_junction_table_name(edge.name, inner_node.type)
        choice == junction_table_choice(has_table(md, short), has_table(md, long))
        junction_table_name == IF choice = "long" THEN long ELSE short
        junction_table == Alias(junction_table_name, fresh)
        inbound == inner_node.direction = INBOUND_EDGE_DIRECTION
        outer_column_prefix == IF inbound THEN edge.second ELSE edge.first
        inner_column_prefix == IF inbound THEN edge.first ELSE edge.second
        outer_to_junction_onclause ==
            _get_junction_join_condition(md, outer_node.selectable, junction_table,
                                         outer_column_prefix)
        junction_to_inner_onclause ==
            _get_junction_join_condition(md, junction_table, inner_node.selectable,
                                         inner_column_prefix)
    IN  IF choice = "none" THEN NoneValue
        ELSE IF choice = "raise" THEN Raise("AssertionError")
        ELSE IF IsError(outer_to_junction_onclause) THEN outer_to_junction_onclause
        ELSE IF IsError(junction_to_inner_onclause) THEN junction_to_inner_onclause
        ELSE [kind |-> "junction",
              outer_to_junction |-> outer_to_junction_onclause,
              junction_table |-> junction_table,
              junction_to_inner |-> junction_to_inner_onclause]

_get_join_condition(md, outer_node, inner_node, fresh) ==
    LET outer_selectable == outer_node.selectable
        inner_selectable == inner_node.selectable
        many == _try_get_many_to_many_join_condition(md, outer_node, inner_node, fresh)
        onclause == _try_get_direct_join_condition(md, outer_selectable, inner_selectable)
        column_name == IdColumn(inner_node.edge.second)
        named == {o \in _get_direct_onclauses(md, outer_selectable, inner_selectable) :
                     o.right.name = column_name}
    IN  IF many.kind # "none" THEN many
        ELSE IF onclause.kind = "binary" THEN onclause
        ELSE IF onclause.kind = "list"
             THEN IF ~_original_tables_equal(outer_selectable, inner_selectable)
                  THEN Raise("AssertionError")
                  ELSE _filter_onclauses_by_direction(onclause.clauses, inner_node.direction,
                                                      inner_selectable, outer_selectable)
        ELSE IF Cardinality(named) = 0 THEN Raise("AssertionError")
        ELSE IF Cardinality(named) = 1 THEN CHOOSE o \in named : TRUE
        ELSE _filter_onclauses_by_direction(named, inner_node.direction,
                                            inner_selectable, outer_selectable)

(***************************************************************************)
(* From clauses. A from clause is a base selectable followed by the joins  *)
(* applied to it, in order; each join is inner or LEFT OUTER.              *)
(***************************************************************************)
FromOf(selectable) == [base |-> selectable, joins |-> <<>>]

JoinTo(from_clause, target, onclause, isouter) ==
    [from_clause EXCEPT !.joins =
        Append(@, [isouter |-> isouter, target |-> target, onclause |-> onclause])]

\* Mutant of _join_nodes: an optional child is joined like any other.
_join_nodes_inner(parent_from_clause, child_from_clause, onclause, optional_scopes_depth) ==
    IF onclause.kind = "junction"
    THEN JoinTo(JoinTo(parent_from_clause, FromOf(onclause.junction_table),
                       onclause.outer_to_junction, FALSE),
                child_from_clause, onclause.junction_to_inner, FALSE)
    ELSE JoinTo(parent_from_clause, child_from_clause, onclause, FALSE)

\* Mutant of _join_nodes: every child is joined as an optional one.
_join_nodes_outer(parent_from_clause, child_from_clause, onclause, optional_scopes_depth) ==
    IF onclause.kind = "junction"
    THEN JoinTo(JoinTo(parent_from_clause, FromOf(onclause.junction_table),
                       onclause.outer_to_junction, TRUE),
                child_from_clause, onclause.junction_to_inner, TRUE)
    ELSE JoinTo(parent_from_clause, child_from_clause, onclause, TRUE)

\* The from clause of the parent after _join_nodes; the child's entry is
\* deleted by the caller's context update.
_join_nodes(parent_from_clause, child_from_clause, onclause, optional_scopes_depth) ==
    LET is_optional == optional_scopes_depth > 0
    IN  IF onclause.kind = "junction"
        THEN JoinTo(JoinTo(parent_from_clause, FromOf(onclause.junction_table),
                           onclause.outer_to_junction, is_optional),
                    child_from_clause, onclause.junction_to_inner, is_optional)
        ELSE JoinTo(parent_from_clause, child_from_clause, onclause, is_optional)

(***************************************************************************)
(* SpecJoin: one parent scope joins one flattened child scope              *)
(* (_flatten_and_join_nonrecursive_nodes, lines 100-101), for every        *)
(* metadata of the bounded schema below.                                   *)
(***************************************************************************)
Pending == [kind |-> "pending"]

\* The foreign keys a schema may declare between the entity tables.
EntityFKs ==
    { FK("Animal", "parentof_id", "Animal", "animal_id"),
      FK("Animal", "motherof_id", "Animal", "animal_id"),
      FK("Animal", "livesin_id", "Location", "location_id"),
      FK("Animal", "bornin_id", "Location", "location_id"),
      FK("Location", "livesin_id", "Animal", "animal_id") }

\* The column sets a junction table may have: each column is a foreign key.
JunctionShapes(t) ==
    << { FK(t, "animal_id", "Animal", "animal_id"),
         FK(t, "friendswith_id", "Animal", "animal_id") },
       { FK(t, "animal_id", "Animal", "animal_id"),
         FK(t, "livesin_id", "Location", "location_id") },
       { FK(t, "animal_id", "Animal", "animal_id"),
         FK(t, "animal_id2", "Animal", "animal_id") },
       { FK(t, "animal_id", "Animal", "animal_id") } >>

\* The traversals of the schema: (outer type, inner type, edge, direction).
Traversals ==
    { <<"Animal", "Animal", Animal_ParentOf, "out">>,
      <<"Animal", "Animal", Animal_ParentOf, "in">>,
      <<"Animal", "Animal", Animal_FriendsWith, "out">>,
      <<"Animal", "Animal", Animal_FriendsWith, "in">>,
      <<"Animal", "Location", Animal_LivesIn, "out">>,
      <<"Location", "Animal", Animal_LivesIn, "in">> }

JunctionNames(t) ==
    {short_junction_table_name(t[3].name), long_junction_table_name(t[3].name, t[2])}

Metadata(tables, fks) == [tables |-> tables, fks |-> fks]

JoinInputs ==
    UNION { { [md |-> Metadata({"Animal", "Location"} \cup present,
                               fks \cup UNION {JunctionShapes(n)[k] : n \in present}),
               outer |-> Scope(Alias(t[1], 1), t[1], NoneValue, "none"),
               inner |-> Scope(Alias(t[2], 2), t[2], t[3], t[4]),
               optional_scopes_depth |-> d] :
                present \in SUBSET JunctionNames(t),
                fks \in SUBSET EntityFKs, d \in {0, 1}, k \in 1..4 } :
            t \in Traversals }

JoinInit ==
    /\ jin \in JoinInputs
    /\ jres = Pending
    /\ RecursionIdle
    /\ EmitIdle
    /\ ExpressionIdle

JoinStep ==
    /\ jres = Pending
    /\ LET onclause == _get_join_condition(jin.md, jin.outer, jin.inner, 3)
       IN  jres' = IF IsError(onclause)
                   THEN [kind |-> "raised", onclause |-> onclause, from_clause |-> NoneValue]
                   ELSE [kind |-> "joined", onclause |-> onclause,
                         from_clause |-> _join_nodes(FromOf(jin.outer.selectable),
                                                     FromOf(jin.inner.selectable),
                                                     onclause, jin.optional_scopes_depth)]
    /\ UNCHANGED <<jin, recursionVars, compilationVars, executionVars, expressionVars>>

JoinNext == JoinStep

SpecJoin == JoinInit /\ [][JoinNext]_vars

(***************************************************************************)
(* SQL values and strings. NULL propagates through CAST and ||; a string   *)
(* is a sequence of characters, so that LIKE '%' || x || '%' is decided    *)
(* on the characters as the database decides it.                           *)
(***************************************************************************)
\* The NULL of a numeric column (every key of the tables is positive) and
\* the NULL of a string.
NULL == 0

NullString == <<"NULL">>

\* SQL's three truth values
SqlTrue == "true"
SqlFalse == "false"
SqlUnknown == "unknown"

Digits == <<"0", "1", "2", "3", "4", "5", "6", "7", "8", "9">>

RECURSIVE Str(_)
Str(n) == IF n < 10 THEN <<Digits[n + 1]>> ELSE Str(n \div 10) \o <<Digits[(n % 10) + 1]>>

\* cast(column, String())
CastString(v) == IF v = NULL THEN NullString ELSE Str(v)

\* a.concat(b)
Concat(a, b) == IF a = NullString \/ b = NullString THEN NullString ELSE a \o b

\* a.contains(b): a LIKE '%' || b || '%'; NULL when an operand is NULL
Contains(a, b) ==
    IF a = NullString \/ b = NullString THEN SqlUnknown
    ELSE IF \E i \in 1..(Len(a) + 1) :
               /\ i + Len(b) - 1 <= Len(a)
               /\ SubSeq(a, i, i + Len(b) - 1) = b
         THEN SqlTrue
         ELSE SqlFalse

\* column == column: never true of a NULL
SqlEq(a, b) == a # NULL /\ b # NULL /\ a = b

\* The tokens of a path: the strings its separators end.
RECURSIVE Tokens(_)
Tokens(path) ==
    IF path = <<>> THEN <<>>
    ELSE LET k == CHOOSE i \in 1..Len(path) :
                      path[i] = "," /\ \A j \in 1..(i - 1) : path[j] # ","
         IN  <<SubSeq(path, 1, k - 1)>> \o Tokens(SubSeq(path, k + 1, Len(path)))

(***************************************************************************)
(* _create_recursive_clause. RecursionNames is lines 132-148: the column   *)
(* names of the recursive table the clause reads, from the join condition  *)
(* of the node with itself and the block's direction.                      *)
(***************************************************************************)
RecursionNames(md, node, fresh) ==
    LET edge == _get_join_condition(md, node, node, fresh)
        inbound == node.direction = INBOUND_EDGE_DIRECTION
    IN  IF IsError(edge) THEN edge
        ELSE IF edge.kind = "binary"
        THEN [kind |-> "names",
              out_edge_name |-> IF inbound THEN edge.right.name ELSE edge.left.name,
              in_edge_name |-> IF inbound THEN edge.left.name ELSE edge.right.name,
              base_column_name |-> edge.left.name,
              recursive_table |-> Alias(node.selectable.tbl, fresh)]
        ELSE IF edge.kind = "junction"
        THEN IF edge.outer_to_junction.kind # "binary" \/ edge.junction_to_inner.kind # "binary"
             THEN Raise("AttributeError")
             ELSE [kind |-> "names",
                   out_edge_name |-> IF inbound THEN edge.outer_to_junction.right.name
                                     ELSE edge.junction_to_inner.right.name,
                   in_edge_name |-> IF inbound THEN edge.junction_to_inner.right.name
                                    ELSE edge.outer_to_junction.right.name,
                   base_column_name |-> edge.outer_to_junction.left.name,
                   recursive_table |-> edge.junction_table]
        ELSE Raise("AssertionError")

\* Mutant of anchor_query: the anchor starts the recursion one step away.
anchor_query_depth_one(selectable_rows, link_values, names) ==
    { [out |-> r[names.base_column_name], in |-> r[names.base_column_name],
       depth |-> 1,
       path |-> Concat(CastString(r[names.base_column_name]), <<",">>)] :
        r \in {x \in selectable_rows :
                  \E v \in link_values : SqlEq(x[names.base_column_name], v)} }

\* Lines 151-166: SELECT DISTINCT base AS out, base AS in, 0, CAST(base) || ','
\* FROM selectable JOIN outer_cte ON base = parent_cte_column.
anchor_query(selectable_rows, link_values, names) ==
    { [out |-> r[names.base_column_name], in |-> r[names.base_column_name],
       depth |-> 0,
       path |-> Concat(CastString(r[names.base_column_name]), <<",">>)] :
        r \in {x \in selectable_rows :
                  \E v \in link_values : SqlEq(x[names.base_column_name], v)} }

\* Mutant of cycle_guard: no cycle detection.
cycle_guard_absent(path, value) == TRUE

\* Lines 188-192: CASE WHEN path LIKE '%' || CAST(value) || '%' THEN 1 ELSE 0 END = 0
cycle_guard(path, value) ==
    (IF Contains(path, CastString(value)) = SqlTrue THEN 1 ELSE 0) = 0

\* Line 187: recursive_cte.depth < node.block.depth
depth_guard(depth, bound) == depth < bound

\* Lines 168-194: one evaluation of the recursive term over the rows `prior`.
recursive_query(table_rows, prior, names, bound) ==
    { [out |-> pair[1][names.out_edge_name], in |-> pair[2].in,
       depth |-> pair[2].depth + 1,
       path |-> Concat(Concat(pair[2].path, CastString(pair[1][names.out_edge_name])),
                       <<",">>)] :
        pair \in {q \in table_rows \X prior :
                     /\ SqlEq(q[1][names.in_edge_name], q[2].out)
                     /\ depth_guard(q[2].depth, bound)
                     /\ cycle_guard(q[2].path, q[1][names.out_edge_name])} }

\* Lines 203-210: selectable JOIN recursive_query ON base = out
\*                           JOIN outer_cte ON in = parent_cte_column,
\* as the pairs (starting value, node reached).
RecursionResult(selectable_rows, link_values, names, cte_rows) ==
    { <<w.in, w.out>> :
        w \in {x \in cte_rows :
                  /\ \E r \in selectable_rows : SqlEq(r[names.base_column_name], x.out)
                  /\ \E v \in link_values : SqlEq(x.in, v)} }

(***************************************************************************)
(* SpecRecursion: the database evaluates the recursive CTE of one Recurse  *)
(* scope: the anchor, then the recursive term on the rows of the last      *)
(* iteration until it yields none.                                         *)
(***************************************************************************)
NodeIds == {1, 2, 12}

MaxJunctionRows == 3

DepthBounds == {1, 2, 150}

DirectMetadata ==
    Metadata({"Animal"}, {FK("Animal", "parentof_id", "Animal", "animal_id")})

JunctionMetadata ==
    Metadata({"Animal", "Animal_FriendsWith"},
             { FK("Animal_FriendsWith", "animal_id", "Animal", "animal_id"),
               FK("Animal_FriendsWith", "friendswith_id", "Animal", "animal_id") })

\* The Animal table with every parentof_id given, and one without parents.
AnimalTables ==
    { {[animal_id |-> n, parentof_id |-> f[n]] : n \in NodeIds} :
        f \in [NodeIds -> NodeIds \cup {NULL}] }

OrphanAnimals == {[animal_id |-> n, parentof_id |-> NULL] : n \in NodeIds}

JunctionTables ==
    { {[animal_id |-> p[1], friendswith_id |-> p[2]] : p \in ps} :
        ps \in {q \in SUBSET (NodeIds \X NodeIds) : Cardinality(q) <= MaxJunctionRows} }

DirectInput(d, b, a, l) ==
    [md |-> DirectMetadata, edge |-> Animal_ParentOf, direction |-> d, depth |-> b,
     animals |-> a, table |-> a, links |-> l]

JunctionInput(d, b, j, l) ==
    [md |-> JunctionMetadata, edge |-> Animal_FriendsWith, direction |-> d, depth |-> b,
     animals |-> OrphanAnimals, table |-> j, links |-> l]

RecursionNode == Scope(Alias("Animal", 1), "Animal", rin.edge, rin.direction)

RecursionInit ==
    /\ \E d \in Directions, b \in DepthBounds, l \in (SUBSET NodeIds) \ {{}} :
          \/ \E a \in AnimalTables : rin = DirectInput(d, b, a, l)
          \/ \E j \in JunctionTables : rin = JunctionInput(d, b, j, l)
    /\ rnames = NoneValue
    /\ rcte = {} /\ rwork = {} /\ rphase = "names" /\ riter = 0
    /\ JoinIdle
    /\ EmitIdle
    /\ ExpressionIdle

\* Lines 132-148: the clause is built from the names the edge resolves to.
NamesStep ==
    /\ rphase = "names"
    /\ rnames' = RecursionNames(rin.md, RecursionNode, 2)
    /\ rphase' = IF IsError(rnames') THEN "raised" ELSE "anchor"
    /\ UNCHANGED <<rin, rcte, rwork, riter, joinVars, compilationVars, executionVars,
                   expressionVars>>

AnchorStep ==
    /\ rphase = "anchor"
    /\ rcte' = anchor_query(rin.animals, rin.links, rnames)
    /\ rwork' = rcte'
    /\ rphase' = "recursive"
    /\ UNCHANGED <<rin, rnames, riter, joinVars, compilationVars, executionVars, expressionVars>>

RecursiveStep ==
    /\ rphase = "recursive"
    /\ rwork' = recursive_query(rin.table, rwork, rnames, rin.depth)
    /\ rwork' # {}
    /\ rcte' = rcte \cup rwork'
    /\ riter' = riter + 1
    /\ UNCHANGED <<rin, rnames, rphase, joinVars, compilationVars, executionVars, expressionVars>>

Fixpoint ==
    /\ rphase = "recursive"
    /\ recursive_query(rin.table, rwork, rnames, rin.depth) = {}
    /\ rphase' = "done"
    /\ rwork' = {}
    /\ UNCHANGED <<rin, rnames, rcte, riter, joinVars, compilationVars, executionVars,
                   expressionVars>>

RecursionNext == NamesStep \/ AnchorStep \/ RecursiveStep \/ Fixpoint

SpecRecursion == RecursionInit /\ [][RecursionNext]_vars

(***************************************************************************)
(* What the recursion is measured against: the edge relation of the block, *)
(* read off the join the resolver gives the same edge between two distinct *)
(* scopes, and the nodes within a number of hops along it.                 *)
(***************************************************************************)
OuterScope == Scope(Alias("Animal", 1), "Animal", rin.edge, rin.direction)

InnerScope == Scope(Alias("Animal", 3), "Animal", rin.edge, rin.direction)

\* The value of a column of the on clause on the pair (outer row, inner row)
OnValue(c, o, i) == IF c.table = OuterScope.selectable THEN o[c.name] ELSE i[c.name]

\* The pairs (a, b) such that the traversal of the edge joins the row of a
\* to the row of b.
Hop ==
    LET onclause == _get_join_condition(rin.md, OuterScope, InnerScope, 4)
    IN  IF onclause.kind = "junction"
        THEN { <<t[onclause.outer_to_junction.right.name],
                 t[onclause.junction_to_inner.right.name]>> : t \in rin.table }
        ELSE { <<q[1].animal_id, q[2].animal_id>> :
                 q \in { x \in rin.animals \X rin.animals :
                           SqlEq(OnValue(onclause.left, x[1], x[2]),
                                 OnValue(onclause.right, x[1], x[2])) } }

RECURSIVE ReachWithin(_, _, _)
ReachWithin(hop, start, n) ==
    IF n = 0 THEN {start}
    ELSE LET prev == ReachWithin(hop, start, n - 1)
         IN  prev \cup { e[2] : e \in { h \in hop : h[1] \in prev } }

Min(a, b) == IF a < b THEN a ELSE b

\* No node is reached from one of its successors.
Acyclic(hop) ==
    \A h \in hop : h[1] \notin ReachWithin(hop, h[2], Cardinality(NodeIds))

\* The distinct node values of the edge relation and of the starting nodes.
NodeValues ==
    (rin.links
        \cup { t[rnames.in_edge_name] : t \in rin.table }
        \cup { t[rnames.out_edge_name] : t \in rin.table }) \ {NULL}

\* The rows of the recursive table the cycle guard keeps out of the CTE.
GuardedRows ==
    { q \in rin.table \X rcte :
        /\ SqlEq(q[1][rnames.in_edge_name], q[2].out)
        /\ depth_guard(q[2].depth, rin.depth)
        /\ ~cycle_guard(q[2].path, q[1][rnames.out_edge_name]) }

RecursionDone == rphase = "done"

HasNames == rphase \in {"anchor", "recursive", "done"}

(***************************************************************************)
(* The compilation of a tree. A SqlNode is a record of what the emission   *)
(* reads from it; query paths are the positions 1..n of the nodes, the     *)
(* root first. The tree's recursions lists and its three dictionaries      *)
(* (filters, output fields, tag fields) are objects of the tree that       *)
(* emit_code_from_ir hands to the context as they are: what a compilation  *)
(* writes there stays written for the next one.                            *)
(***************************************************************************)
QueryMetadata ==
    Metadata({"Animal", "Location", "Animal_FriendsWith"},
             { FK("Animal", "parentof_id", "Animal", "animal_id"),
               FK("Animal", "livesin_id", "Location", "location_id"),
               FK("Animal_FriendsWith", "animal_id", "Animal", "animal_id"),
               FK("Animal_FriendsWith", "friendswith_id", "Animal", "animal_id") })

TableColumns ==
    [t \in QueryMetadata.tables |->
        IF t = "Animal" THEN {"animal_id", "name", "parentof_id", "livesin_id"}
        ELSE IF t = "Location" THEN {"location_id", "name"}
        ELSE {"animal_id", "friendswith_id"}]

\* Mutant of HasColumn: every name is a column of every selectable.
HasAnyColumn(selectable, name) == TRUE

\* selectable.c[name] exists
HasColumn(selectable, name) ==
    IF selectable.tbl \in {"cte", "recursive"} THEN name \in selectable.names
    ELSE name \in TableColumns[selectable.tbl]

\* A column of a select list under the name it has in the result: its label
\* when it is labelled, its own name otherwise.
Item(column, key) == [table |-> column.table, name |-> column.name, key |-> key]

\* column.label(None): a label of its own, named after nothing else
AnonLabel(n, name) == "%(" \o ToString(n) \o " " \o name \o ")s"

SqlNode(parent, block, edge, direction, depth, type, optional_scopes_depth, children_nodes) ==
    [parent |-> parent, block |-> block, edge |-> edge, direction |-> direction,
     depth |-> depth, type |-> type, optional_scopes_depth |-> optional_scopes_depth,
     children_nodes |-> children_nodes]

\* The expressions of a filter predicate
LocalField(field_name) == [kind |-> "LocalField", field_name |-> field_name]

Variable(variable_name) == [kind |-> "Variable", variable_name |-> variable_name]

NullLiteral == [kind |-> "Literal"]

ContextField(query_path, field) ==
    [kind |-> "ContextField", query_path |-> query_path, field |-> field]

BinaryComposition(operator, left, right) ==
    [kind |-> "BinaryComposition", operator |-> operator, left |-> left, right |-> right]

\* A dictionary of the tree: the paths it holds and the list under each.
DictGet(d, p) == d.val[p]

DictSet(d, p, v) == [keys |-> d.keys \cup {p}, val |-> [d.val EXCEPT ![p] = v]]

\* Mutant of DictDel: the entry stays.
DictKept(d, p) == d

DictDel(d, p) == [keys |-> d.keys \ {p}, val |-> [d.val EXCEPT ![p] = <<>>]]

(***************************************************************************)
(* The state a step works on: the tree's mutable parts, the context, the   *)
(* exception raised (if any) and the value returned.                       *)
(***************************************************************************)
Ok(s) == s.err = ""

Fail(s, exc) == IF Ok(s) THEN [s EXCEPT !.err = exc] ELSE s

\* v, then Op of it: the steps of a function body in their order
Then(v, Op(_)) == CHOOSE r \in {Op(y) : y \in {v}} : TRUE

\* d[p] on a dictionary of the tree: a plain dict raises KeyError on a path
\* it does not hold, a defaultdict enters the path with an empty list.
Lookup(s, name, p) ==
    IF ~Ok(s) \/ p \in s.tree[name].keys THEN s
    ELSE IF tin.dicts = "defaultdict"
         THEN [s EXCEPT !.tree[name].keys = @ \cup {p}]
         ELSE Fail(s, "KeyError")

\* d[p] on a dictionary of the context ({} at the start of a compilation)
ContextLookup(s, name, p) ==
    IF Ok(s) /\ s.ctx[name][p] = NoneValue THEN Fail(s, "KeyError") ELSE s

NodeOf(p) == tin.nodes[p]

ScopeOf(s, p) ==
    Scope(s.ctx.selectable[p], NodeOf(p).type, NodeOf(p).edge, NodeOf(p).direction)

\* compiler_metadata.get_table(schema_type). The metadata provider is not
\* part of emit_sql.py; as its interface is specified, a schema type with no
\* table is a fatal compilation error.
get_table(md, schema_type) ==
    IF has_table(md, schema_type) THEN [kind |-> "table", tbl |-> schema_type]
    ELSE Raise("GraphQLCompilationError")

\* Lines 218-224
_create_and_reference_table(s, p) ==
    IF ~Ok(s) THEN s
    ELSE Then(get_table(QueryMetadata, NodeOf(p).type),
              LAMBDA found :
                  IF IsError(found) THEN Fail(s, found.exc)
                  ELSE LET table == Alias(found.tbl, s.ctx.fresh)
                       IN  [s EXCEPT !.ctx.fresh = @ + 1,
                                     !.ctx.from_clause[p] = FromOf(table),
                                     !.ctx.selectable[p] = table])

\* Lines 425-471 on two nodes of the tree, the result in ret
JoinCondition(s, outer, inner) ==
    IF ~Ok(s) THEN s
    ELSE Then(_get_join_condition(QueryMetadata, ScopeOf(s, outer), ScopeOf(s, inner),
                                  s.ctx.fresh),
              LAMBDA onclause :
                  IF IsError(onclause) THEN Fail(s, onclause.exc)
                  ELSE [s EXCEPT !.ctx.fresh = @ + 1, !.ret = onclause])

\* Lines 271-286 and 293
_create_link_for_recursion(s, p, recursion_node) ==
    LET selectable == s.ctx.selectable[p]
        linked(t) ==
            LET edge == t.ret
                name == IF edge.kind = "junction" THEN edge.outer_to_junction.left.name
                        ELSE edge.left.name
            IN  IF ~Ok(t) THEN t
                ELSE IF edge.kind \notin {"junction", "binary"} THEN Fail(t, "AssertionError")
                ELSE IF ~HasColumn(selectable, name) THEN Fail(t, "KeyError")
                ELSE [t EXCEPT !.ctx.recursion_columns[recursion_node] =
                                   [in_col |-> Item(Col(selectable, name), name),
                                    out_col |-> NoneValue]]
    IN  Then(Then(Then(_create_and_reference_table(s, recursion_node),
                       LAMBDA t : ContextLookup(t, "selectable", NodeOf(recursion_node).parent)),
                  LAMBDA t : JoinCondition(t, NodeOf(recursion_node).parent, recursion_node)),
             linked)


\* parent_output_fields[field_alias] = entry
PutOutputField(fields, entry) ==
    IF \E i \in DOMAIN fields : fields[i].alias = entry.alias
    THEN [i \in DOMAIN fields |-> IF fields[i].alias = entry.alias THEN entry ELSE fields[i]]
    ELSE Append(fields, entry)

\* Mutant of PutOutputFields: the output fields of a child are not merged into
\* those of its parent.
PutOutputFieldsKept(fields, entries) == fields

RECURSIVE PutOutputFields(_, _)
PutOutputFields(fields, entries) ==
    IF entries = <<>> THEN fields
    ELSE PutOutputFields(PutOutputField(fields, Head(entries)), Tail(entries))

\* Lines 237-244
_flatten_output_fields(s, parent_node, child_node) ==
    Then(Then(Lookup(s, "outputs", child_node),
              LAMBDA t : Lookup(t, "outputs", parent_node)),
         LAMBDA t :
             IF ~Ok(t) THEN t
             ELSE Then(Then(Lookup([t EXCEPT !.tree.outputs =
                                        DictSet(@, parent_node,
                                                PutOutputFields(DictGet(@, parent_node),
                                                                DictGet(@, child_node)))],
                                   "tags", parent_node),
                            LAMBDA u : Lookup(u, "tags", child_node)),
                       LAMBDA u :
                           IF ~Ok(u) THEN u
                           ELSE [u EXCEPT !.tree.tags =
                                              DictSet(@, parent_node,
                                                      DictGet(@, parent_node)
                                                          \o DictGet(@, child_node)),
                                          !.tree.outputs = DictDel(@, child_node)]))

\* Mutant of hoisted_recursions: the recursions of a child stay with it.
hoisted_recursions_dropped(recursions, child_recursions) == recursions

\* Line 234: node.recursions.extend(child_node.recursions)
hoisted_recursions(recursions, child_recursions) == recursions \o child_recursions

\* Mutant of _flatten_node: the filters of the child are deleted and not
\* handed to the parent.
_flatten_node_filters_dropped(s, p, child_node) ==
    Then(Then(Then(_flatten_output_fields(s, p, child_node),
                   LAMBDA t : Lookup(t, "filters", p)),
              LAMBDA t : Lookup(t, "filters", child_node)),
         LAMBDA t :
             IF ~Ok(t) THEN t
             ELSE [t EXCEPT !.tree.filters = DictDel(@, child_node),
                            !.tree.recursions[p] =
                                hoisted_recursions(@, t.tree.recursions[child_node])])

\* Lines 227-234
_flatten_node(s, p, child_node) ==
    Then(Then(Then(_flatten_output_fields(s, p, child_node),
                   LAMBDA t : Lookup(t, "filters", p)),
              LAMBDA t : Lookup(t, "filters", child_node)),
         LAMBDA t :
             IF ~Ok(t) THEN t
             ELSE [t EXCEPT !.tree.filters =
                                DictDel(DictSet(@, p, DictGet(@, p) \o DictGet(@, child_node)),
                                        child_node),
                            !.tree.recursions[p] =
                                hoisted_recursions(@, t.tree.recursions[child_node])])

\* Lines 247-268 on the from clauses of the context
JoinNodes(s, parent_node, child_node, onclause) ==
    Then(Then(ContextLookup(s, "from_clause", parent_node),
              LAMBDA t : ContextLookup(t, "from_clause", child_node)),
         LAMBDA t :
             IF ~Ok(t) THEN t
             ELSE [t EXCEPT !.ctx.from_clause =
                       [@ EXCEPT ![parent_node] =
                                     _join_nodes(@, t.ctx.from_clause[child_node], onclause,
                                                 NodeOf(child_node).optional_scopes_depth),
                                 ![child_node] = NoneValue]])

\* Lines 99-101: one child of the second loop
JoinChild(s, p, child_node) ==
    Then(Then(_flatten_node(s, p, child_node),
              LAMBDA t : JoinCondition(t, p, child_node)),
         LAMBDA t : JoinNodes(t, p, child_node, t.ret))

\* The recursion combinators a backend descriptor names here
Combinators == {"union_all", "union", "intersect"}

\* The combinators a recursive CTE offers as methods.
CteAttributes == {"union", "union_all"}

\* Mutant of CteHasAttribute: the combinator is not checked.
CteHasAnyAttribute(name) == TRUE

\* Line 196, hasattr(recursive_cte, recursion_combinator): of the names above,
\* a CTE has the methods union and union_all.
CteHasAttribute(name) == name \in CteAttributes

\* Lines 125-215
_create_recursive_clause(s, p, out_link_column, outer_cte) ==
    LET selectable == s.ctx.selectable[p]
        built(t) ==
            LET names == t.ret
                recursive_selectable ==
                    [tbl |-> "recursive", id |-> Len(t.ctx.clauses) + 1,
                     names |-> {names.out_edge_name, names.in_edge_name,
                                "__depth_internal_name", "__path_internal_name"},
                     out_edge_name |-> names.out_edge_name,
                     in_edge_name |-> names.in_edge_name]
                parent_cte_column == Col(outer_cte, out_link_column.key)
                from_clause ==
                    JoinTo(JoinTo(t.ctx.from_clause[p], FromOf(recursive_selectable),
                                  OnClause(Col(selectable, names.base_column_name),
                                           Col(recursive_selectable, names.out_edge_name)),
                                  FALSE),
                           FromOf(outer_cte),
                           OnClause(Col(recursive_selectable, names.in_edge_name), parent_cte_column),
                           FALSE)
                label == AnonLabel(t.ctx.fresh, names.in_edge_name)
            IN  IF ~Ok(t) THEN t
                ELSE IF ~HasColumn(selectable, names.base_column_name)
                        \/ ~HasColumn(outer_cte, out_link_column.key)
                        \/ ~HasColumn(names.recursive_table, names.out_edge_name)
                        \/ ~HasColumn(names.recursive_table, names.in_edge_name)
                THEN Fail(t, "KeyError")
                ELSE IF ~CteHasAttribute(tin.backend) THEN Fail(t, "AssertionError")
                ELSE IF t.ctx.from_clause[p] = NoneValue
                        \/ t.ctx.recursion_columns[p] = NoneValue
                THEN Fail(t, "KeyError")
                ELSE [t EXCEPT
                        !.ctx.fresh = @ + 1,
                        !.ctx.clauses =
                            Append(@, [path |-> p, selectable |-> selectable, outer_cte |-> outer_cte,
                                       link |-> out_link_column.key, names |-> names,
                                       depth |-> NodeOf(p).depth,
                                       combinator |-> tin.backend,
                                       recursive_query |-> recursive_selectable]),
                        !.ctx.from_clause[p] = from_clause,
                        !.ctx.recursion_columns[p].out_col =
                            Item(Col(recursive_selectable, names.in_edge_name), label)]
    IN  IF ~Ok(s) \/ NodeOf(p).block # "Recurse" THEN s
        ELSE IF out_link_column = NoneValue \/ outer_cte = NoneValue
        THEN Fail(s, "AssertionError")
        ELSE Then(Then(RecursionNames(QueryMetadata, ScopeOf(s, p), s.ctx.fresh),
                       LAMBDA names :
                           IF IsError(names) THEN Fail(s, names.exc)
                           ELSE [s EXCEPT !.ctx.fresh = @ + 1, !.ret = names]),
                  built)


\* constants.OPERATORS: the SQL operator of a filter operator and its arity
OPERATORS ==
    [op \in {"=", ">", "||", "&&", "contains"} |->
        IF op = "=" THEN [name |-> "__eq__", cardinality |-> "SINGLE"]
        ELSE IF op = ">" THEN [name |-> "__gt__", cardinality |-> "SINGLE"]
        ELSE IF op = "||" THEN [name |-> "or_", cardinality |-> "DUAL"]
        ELSE IF op = "&&" THEN [name |-> "and_", cardinality |-> "DUAL"]
        ELSE [name |-> "in_", cardinality |-> "MANY"]]

SqlColumn(selectable, name) == [kind |-> "column", table |-> selectable, name |-> name]

\* The name a tag field has in the selectable of its scope (lines 377-380)
TagColumnName(renames, tag_query_path, tag_field_name) ==
    IF \E r \in renames : r.path = tag_query_path /\ r.field = tag_field_name
    THEN (CHOOSE r \in renames : r.path = tag_query_path /\ r.field = tag_field_name).name
    ELSE tag_field_name

\* Mutant of receiver_first: the operands stay where they are.
receiver_kept(left, right) == <<left, right>>

\* Lines 389-390: if left is None and right is not None, they change places
receiver_first(left, right) == IF left = NoneValue THEN <<right, left>> ELSE <<left, right>>

\* Mutant of many_operands_fit: the right operand is not checked.
many_operands_left_only(left, right) == left.kind = "bindparam"

\* Lines 399-402: the left operand is a BindParameter and the right a Column
many_operands_fit(left, right) == left.kind = "bindparam" /\ right.kind = "column"

\* Lines 363-408, over the operator table constants.OPERATORS names;
\* Python's None is the literal of kind "none"
RECURSIVE _expression_to_sql(_, _, _, _)
_expression_to_sql(operators, expression, selectable, context) ==
    IF expression.kind = "LocalField"
    THEN IF HasColumn(selectable, expression.field_name)
         THEN SqlColumn(selectable, expression.field_name)
         ELSE Raise("KeyError")
    ELSE IF expression.kind = "Variable"
    THEN [kind |-> "bindparam", name |-> expression.variable_name, expanding |-> FALSE]
    ELSE IF expression.kind = "Literal"
    THEN NoneValue
    ELSE IF expression.kind = "ContextField"
    THEN LET tag_column_name ==
                 TagColumnName(context.renames, expression.query_path, expression.field)
             tag_selectable == context.selectable[expression.query_path]
         IN  IF tag_selectable = NoneValue THEN Raise("KeyError")
             ELSE IF ~HasColumn(tag_selectable, tag_column_name) THEN Raise("KeyError")
             ELSE SqlColumn(tag_selectable, tag_column_name)
    ELSE IF expression.kind = "BinaryComposition"
    THEN IF expression.operator \notin DOMAIN operators THEN Raise("KeyError")
         ELSE CHOOSE clause \in
                { LET sql_operator == operators[expression.operator]
                      operands == receiver_first(left, right)
                  IN  IF IsError(left) THEN left
                      ELSE IF IsError(right) THEN right
                      ELSE IF sql_operator.cardinality = "SINGLE"
                      THEN IF right = NoneValue /\ left = NoneValue
                           THEN Raise("AssertionError")
                           ELSE [kind |-> "binary", operator |-> sql_operator.name,
                                 left |-> operands[1], right |-> operands[2]]
                      ELSE IF sql_operator.cardinality = "DUAL"
                      THEN [kind |-> "binary", operator |-> sql_operator.name,
                            left |-> left, right |-> right]
                      ELSE IF sql_operator.cardinality = "MANY"
                      THEN IF ~many_operands_fit(left, right)
                           THEN Raise("AssertionError")
                           ELSE [kind |-> "binary", operator |-> sql_operator.name,
                                 left |-> right,
                                 right |-> [left EXCEPT !.expanding = TRUE]]
                      ELSE Raise("AssertionError")
                  : left \in {_expression_to_sql(operators, expression.left, selectable,
                                                 context)},
                    right \in {_expression_to_sql(operators, expression.right, selectable,
                                                  context)} } :
                TRUE
    ELSE Raise("AssertionError")

\* Lines 355-360
_convert_filter_to_sql(filter, context) ==
    IF context.selectable[filter.path] = NoneValue THEN Raise("KeyError")
    ELSE _expression_to_sql(OPERATORS, filter.predicate, context.selectable[filter.path],
                            context)

(***************************************************************************)
(* SpecExpression: _expression_to_sql on one predicate of a scope whose    *)
(* selectable is an alias of Animal, with a tag of the enclosing CTE in    *)
(* scope. The operands are drawn from every kind of expression node, one   *)
(* of a kind the function does not know included; the operator table is    *)
(* constants.OPERATORS or that table with an operator of a cardinality     *)
(* other than SINGLE, DUAL and MANY.                                        *)
(***************************************************************************)
ExtendedOperators ==
    [op \in DOMAIN OPERATORS \cup {"between"} |->
        IF op = "between" THEN [name |-> "between", cardinality |-> "TERNARY"]
        ELSE OPERATORS[op]]

OperatorTables == {OPERATORS, ExtendedOperators}

ExpressionOperators == DOMAIN ExtendedOperators \cup {"intersects"}

Atoms ==
    { LocalField("name"), LocalField("color"), Variable("$v"), NullLiteral,
      ContextField(1, "name"), [kind |-> "FoldedContextField"] }

Operands ==
    Atoms \cup { BinaryComposition("=", LocalField("name"), Variable("$v")),
                 BinaryComposition("=", NullLiteral, NullLiteral) }

Predicates ==
    { BinaryComposition(op, left, right) :
        op \in ExpressionOperators, left \in Operands, right \in Operands }

ExpressionSelectable == Alias("Animal", 2)

ExpressionContext ==
    [selectable |-> <<[tbl |-> "cte", id |-> 1, names |-> {"name"}]>>, renames |-> {}]

ExpressionInit ==
    /\ \E e \in Predicates, t \in OperatorTables : xin = [expression |-> e, operators |-> t]
    /\ xres = Pending
    /\ JoinIdle
    /\ RecursionIdle
    /\ EmitIdle

ExpressionStep ==
    /\ xres = Pending
    /\ xres' = _expression_to_sql(xin.operators, xin.expression, ExpressionSelectable,
                                  ExpressionContext)
    /\ UNCHANGED <<xin, joinVars, recursionVars, compilationVars, executionVars>>

ExpressionNext == ExpressionStep

SpecExpression == ExpressionInit /\ [][ExpressionNext]_vars

\* Mutant of FilterClauses: the filters of a unit are not compiled.
FilterClausesNone(s, p, is_final_query) == IF ~Ok(s) THEN s ELSE [s EXCEPT !.ret = <<>>]

\* Lines 329-334: the clauses in ret, or the first exception
FilterClauses(s, p, is_final_query) ==
    IF ~Ok(s) THEN s
    ELSE IF is_final_query THEN [s EXCEPT !.ret = <<>>]
    ELSE Then(Lookup(s, "filters", p),
              LAMBDA t :
                  IF ~Ok(t) THEN t
                  ELSE Then([i \in DOMAIN DictGet(t.tree.filters, p) |->
                                _convert_filter_to_sql(DictGet(t.tree.filters, p)[i], t.ctx)],
                            LAMBDA clauses :
                                IF \E i \in DOMAIN clauses : IsError(clauses[i])
                                THEN Fail(t, clauses[CHOOSE i \in DOMAIN clauses :
                                                        /\ IsError(clauses[i])
                                                        /\ \A j \in 1..(i - 1) :
                                                               ~IsError(clauses[j])].exc)
                                ELSE [t EXCEPT !.ret = clauses]))

\* Mutant of Rename: the new name of a field is not recorded.
RenameForgotten(renames, path, field, name) == renames

\* renames[path][field] = name
Rename(renames, path, field, name) ==
    {r \in renames : ~(r.path = path /\ r.field = field)}
        \cup {[path |-> path, field |-> field, name |-> name]}

\* Lines 300-309: the i-th output field of the node, its column appended to ret
OutputColumn(s, p, i) ==
    LET entry == DictGet(s.tree.outputs, p)[i]
        selectable == s.ctx.selectable[entry.path]
    IN  IF ~Ok(s) THEN s
        ELSE IF selectable = NoneValue THEN Fail(s, "KeyError")
        ELSE IF entry.is_renamed
        THEN IF ~HasColumn(selectable, entry.alias) THEN Fail(s, "KeyError")
             ELSE [s EXCEPT !.ret = Append(@, Item(Col(selectable, entry.alias), entry.alias))]
        ELSE IF ~HasColumn(selectable, entry.field) THEN Fail(s, "KeyError")
        ELSE [s EXCEPT
                !.ret = Append(@, Item(Col(selectable, entry.field), entry.alias)),
                !.tree.outputs.val[p][i].is_renamed = TRUE,
                !.ctx.renames = Rename(@, entry.path, entry.field, entry.alias)]

RECURSIVE OutputColumnsFrom(_, _, _)
OutputColumnsFrom(s, p, i) ==
    IF ~Ok(s) \/ i > Len(DictGet(s.tree.outputs, p)) THEN s
    ELSE Then(OutputColumn(s, p, i), LAMBDA t : OutputColumnsFrom(t, p, i + 1))

\* Lines 312-317: the i-th tag field of the node
TagColumn(s, p, i) ==
    LET tag_field == DictGet(s.tree.tags, p)[i]
        selectable == s.ctx.selectable[tag_field.path]
        label == AnonLabel(s.ctx.fresh, tag_field.field)
    IN  IF ~Ok(s) THEN s
        ELSE IF selectable = NoneValue THEN Fail(s, "KeyError")
        ELSE IF ~HasColumn(selectable, tag_field.field) THEN Fail(s, "KeyError")
        ELSE [s EXCEPT
                !.ret = Append(@, Item(Col(selectable, tag_field.field), label)),
                !.ctx.fresh = @ + 1,
                !.ctx.renames = Rename(@, tag_field.path, tag_field.field, label)]

RECURSIVE TagColumnsFrom(_, _, _)
TagColumnsFrom(s, p, i) ==
    IF ~Ok(s) \/ i > Len(DictGet(s.tree.tags, p)) THEN s
    ELSE Then(TagColumn(s, p, i), LAMBDA t : TagColumnsFrom(t, p, i + 1))

\* Lines 296-318: the columns in ret
_get_output_columns(s, p, is_final_query) ==
    Then(Then(Lookup([s EXCEPT !.ret = <<>>], "outputs", p),
              LAMBDA t : OutputColumnsFrom(t, p, 1)),
         LAMBDA t :
             IF ~Ok(t) \/ is_final_query THEN t
             ELSE Then(Lookup(t, "tags", p), LAMBDA u : TagColumnsFrom(u, p, 1)))

\* Mutant of LinkColumnsFrom: the query of a unit leaves out the link columns
\* of its recursions.
LinkColumnsSkipped(s, p, i) == s

\* Lines 340-342: the link column of the i-th recursion of the node
RECURSIVE LinkColumnsFrom(_, _, _)
LinkColumnsFrom(s, p, i) ==
    IF ~Ok(s) \/ i > Len(s.tree.recursions[p]) THEN s
    ELSE IF s.ctx.recursion_columns[s.tree.recursions[p][i]] = NoneValue
    THEN Fail(s, "KeyError")
    ELSE Then([s EXCEPT !.ret =
                  Append(@, s.ctx.recursion_columns[s.tree.recursions[p][i]].in_col)],
              LAMBDA t : LinkColumnsFrom(t, p, i + 1))

\* Lines 321-352: the query in ret
_create_query(s, p, is_final_query) ==
    Then(FilterClauses(s, p, is_final_query),
         LAMBDA f :
             Then(Then(Then(_get_output_columns(f, p, is_final_query),
                            LAMBDA t : IF is_final_query THEN t ELSE LinkColumnsFrom(t, p, 1)),
                       LAMBDA t :
                           IF ~Ok(t) \/ t.ctx.recursion_columns[p] = NoneValue THEN t
                           ELSE [t EXCEPT !.ret = Append(@, t.ctx.recursion_columns[p].out_col)]),
                  LAMBDA t :
                      IF ~Ok(t) THEN t
                      ELSE IF t.ctx.from_clause[p] = NoneValue THEN Fail(t, "KeyError")
                      ELSE [t EXCEPT !.ret =
                               [columns |-> t.ret,
                                from_clause |-> t.ctx.from_clause[p],
                                where |-> IF Ok(f) THEN f.ret ELSE <<>>,
                                final |-> is_final_query]]))

\* Mutant of _get_recursive_join_condition: the two link columns change
\* places.
_get_recursive_join_condition_swapped(s, node, recursive_node, in_column, out_column) ==
    LET selectable == s.ctx.selectable[node]
        recursive_selectable == s.ctx.selectable[recursive_node]
    IN  IF ~Ok(s) THEN s
        ELSE IF selectable = NoneValue \/ recursive_selectable = NoneValue
        THEN Fail(s, "KeyError")
        ELSE IF in_column = NoneValue \/ out_column = NoneValue
        THEN Fail(s, "AttributeError")
        ELSE [s EXCEPT !.ret = OnClause(Col(selectable, out_column.key),
                                        Col(recursive_selectable, in_column.key))]

\* Lines 411-422: the on clause in ret
_get_recursive_join_condition(s, node, recursive_node, in_column, out_column) ==
    LET selectable == s.ctx.selectable[node]
        recursive_selectable == s.ctx.selectable[recursive_node]
    IN  IF ~Ok(s) THEN s
        ELSE IF selectable = NoneValue \/ recursive_selectable = NoneValue
        THEN Fail(s, "KeyError")
        ELSE IF in_column = NoneValue \/ out_column = NoneValue
        THEN Fail(s, "AttributeError")
        ELSE IF ~HasColumn(selectable, in_column.key)
                \/ ~HasColumn(recursive_selectable, out_column.key)
        THEN Fail(s, "KeyError")
        ELSE [s EXCEPT !.ret = OnClause(Col(selectable, in_column.key),
                                        Col(recursive_selectable, out_column.key))]

\* Lines 72-75: the caller's part of one recursion, after its query returned
JoinRecursion(s, node, recursive_node, recursion_source_column, recursion_sink_column) ==
    Then(Then(_flatten_output_fields(s, node, recursive_node),
              LAMBDA t : _get_recursive_join_condition(t, node, recursive_node,
                                                       recursion_source_column,
                                                       recursion_sink_column)),
         LAMBDA t : JoinNodes(t, node, recursive_node, t.ret))

\* Lines 53-55: the query of the unit as a CTE, every visited path on it
Materialize(s, p, visited_nodes) ==
    Then(_create_query(s, p, FALSE),
         LAMBDA t :
             IF ~Ok(t) THEN t
             ELSE IF \E i \in DOMAIN t.ret.columns : t.ret.columns[i] = NoneValue
             THEN Fail(t, "ArgumentError")
             ELSE LET cte == [tbl |-> "cte", id |-> Len(t.ctx.ctes) + 1,
                              names |-> {t.ret.columns[i].key : i \in DOMAIN t.ret.columns}]
                  IN  [t EXCEPT
                         !.ctx.ctes = Append(@, [path |-> p, query |-> t.ret,
                                                 selectable |-> cte]),
                         !.ctx.from_clause[p] = FromOf(cte),
                         !.ctx.selectable =
                             [q \in DOMAIN @ |->
                                 IF \E i \in DOMAIN visited_nodes : visited_nodes[i] = q
                                 THEN cte ELSE @[q]],
                         !.ret = cte])

(***************************************************************************)
(* The trees compiled. Recurse children of a node are in its recursions    *)
(* list and not among its children_nodes; every dictionary of the tree     *)
(* holds every path of the tree.                                           *)
(***************************************************************************)
MaxRuns == 2

RootNode(children_nodes) ==
    SqlNode(0, "QueryRoot", NoneValue, "none", 0, "Animal", 0, children_nodes)

Traverse(parent, edge, direction, type, optional_scopes_depth, children_nodes) ==
    SqlNode(parent, "Traverse", edge, direction, 0, type, optional_scopes_depth,
            children_nodes)

Recurse(parent, edge, direction, depth, children_nodes) ==
    SqlNode(parent, "Recurse", edge, direction, depth, "Animal", 0, children_nodes)

Output(alias, path, field) ==
    [alias |-> alias, path |-> path, field |-> field, is_renamed |-> FALSE]

Tree(shape, nodes, recursions, filters, outputs, tags) ==
    [shape |-> shape, nodes |-> nodes,
     tree |-> [recursions |-> recursions,
               filters |-> [keys |-> DOMAIN filters, val |-> filters],
               outputs |-> [keys |-> DOMAIN outputs, val |-> outputs],
               tags |-> [keys |-> DOMAIN tags, val |-> tags]]]

\* The filters of a scope on its field: none, field = $v,
\* field IS NULL OR field = $v, or field <op> %tag for the tag on the name of
\* the root; and, with an operator that constants.OPERATORS does not hold,
\* field intersects $v and field IS NULL OR field intersects $v.
FilterKinds == {"none", "plain", "tolerant"}

FilterOf(kind, field, path) ==
    LET plain == BinaryComposition("=", LocalField(field), Variable("$v"))
        intersects == BinaryComposition("intersects", LocalField(field), Variable("$v"))
        tolerant(predicate) ==
            BinaryComposition("||", BinaryComposition("=", LocalField(field), NullLiteral),
                              predicate)
        tagged == BinaryComposition(kind, LocalField(field), ContextField(1, "name"))
    IN  IF kind = "none" THEN <<>>
        ELSE <<[predicate |-> IF kind = "plain" THEN plain
                              ELSE IF kind = "tolerant" THEN tolerant(plain)
                              ELSE IF kind = "unsupported" THEN intersects
                              ELSE IF kind = "tolerant unsupported" THEN tolerant(intersects)
                              ELSE tagged,
                path |-> path]>>

ChildTraversals ==
    { <<Animal_LivesIn, "out", "Location">>, <<Animal_ParentOf, "out", "Animal">>,
      <<Animal_ParentOf, "in", "Animal">>, <<Animal_FriendsWith, "out", "Animal">> }

RecurseTraversals ==
    { <<Animal_ParentOf, "out">>, <<Animal_ParentOf, "in">>, <<Animal_FriendsWith, "out">> }

\* Animal { name @output }
SingleTrees ==
    { Tree("single", <<RootNode(<<>>)>>, << <<>> >>, << <<>> >>,
           << <<Output(a, 1, "name")>> >>, << <<>> >>) :
        a \in {"name", "animal_name"} }

\* Animal { animal_id @output  edge [@optional] { name @output [@filter] } }
ChildTrees ==
    { Tree("child",
           <<RootNode(<<2>>), Traverse(1, t[1], t[2], t[3], d, <<>>)>>,
           << <<>>, <<>> >>,
           << <<>>, FilterOf(k, "name", 2) >>,
           << <<Output("root_id", 1, "animal_id")>>, <<Output("child_name", 2, "name")>> >>,
           << <<>>, <<>> >>) :
        t \in ChildTraversals, d \in {0, 1}, k \in FilterKinds }

\* Animal { animal_id @output
\*          in_Animal_ParentOf @optional { name @output
\*              out_Animal_LivesIn { name @output [@filter] } } }
GrandchildTrees ==
    { Tree("grandchild",
           <<RootNode(<<2>>), Traverse(1, Animal_ParentOf, "in", "Animal", 1, <<3>>),
             Traverse(2, Animal_LivesIn, "out", "Location", 1, <<>>)>>,
           << <<>>, <<>>, <<>> >>,
           << <<>>, <<>>, FilterOf(k, "name", 3) >>,
           << <<Output("root_id", 1, "animal_id")>>, <<Output("child_name", 2, "name")>>,
              <<Output("grandchild_name", 3, "name")>> >>,
           << <<>>, <<>>, <<>> >>) :
        k \in FilterKinds }

\* Animal { name @output @tag  edge @recurse(depth) { name @output [@filter(%tag)] } }
RecurseTrees ==
    { Tree("recurse",
           <<RootNode(<<>>), Recurse(1, t[1], t[2], depth, <<>>)>>,
           << <<2>>, <<>> >>,
           << <<>>, FilterOf(op, "name", 2) >>,
           << <<Output("root_id", 1, "animal_id"), Output("root_name", 1, "name")>>,
              <<Output("name", 2, "name")>> >>,
           << IF op = "none" THEN <<>> ELSE <<[path |-> 1, field |-> "name"]>>, <<>> >>) :
        t \in RecurseTraversals, depth \in {1, 2}, op \in {"none", "=", ">"} }

\* Animal { name @output @tag
\*          in_Animal_ParentOf { name @output
\*              out_Animal_ParentOf @recurse(depth: 1) { name @output @filter(%tag) } } }
HoistedTrees ==
    { Tree("hoisted",
           <<RootNode(<<2>>), Traverse(1, Animal_ParentOf, "in", "Animal", 0, <<>>),
             Recurse(2, Animal_ParentOf, "out", 1, <<>>)>>,
           << <<>>, <<3>>, <<>> >>,
           << <<>>, <<>>, FilterOf(op, "name", 3) >>,
           << <<Output(a, 1, "name")>>, <<Output("child_name", 2, "name")>>,
              <<Output("rec_name", 3, "name")>> >>,
           << <<[path |-> 1, field |-> "name"]>>, <<>>, <<>> >>) :
        op \in {"=", ">"}, a \in {"name", "root_name"} }

\* Animal { name @output @tag
\*          in_Animal_ParentOf @recurse(depth: 1) { name @output
\*              out_Animal_ParentOf @recurse(depth: 1) { name @output @filter(%tag) } } }
NestedTrees ==
    { Tree("nested",
           <<RootNode(<<>>), Recurse(1, Animal_ParentOf, "in", 1, <<>>),
             Recurse(2, Animal_ParentOf, d, 1, <<>>)>>,
           << <<2>>, <<3>>, <<>> >>,
           << <<>>, <<>>, FilterOf(op, "name", 3) >>,
           << <<Output("root_name", 1, "name")>>, <<Output("self_or_parent", 2, "name")>>,
              <<Output("ancestor_or_self", 3, "name")>> >>,
           << <<[path |-> 1, field |-> "name"]>>, <<>>, <<>> >>) :
        op \in {"=", ">"}, d \in Directions }

\* Trees that do not fit the schema: color is a column of no table and
\* Entity is a type with no table. The field is an output of the root, an
\* output or a filter field of a child, a tag of the root or an output of a
\* Recurse scope; the type is that of the root or of a child.
MismatchedTrees ==
    { Tree("mismatched", <<RootNode(<<>>)>>, << <<>> >>, << <<>> >>,
           << <<Output("color", 1, "color")>> >>, << <<>> >>),
      Tree("mismatched",
           <<SqlNode(0, "QueryRoot", NoneValue, "none", 0, "Entity", 0, <<>>)>>,
           << <<>> >>, << <<>> >>, << <<Output("name", 1, "name")>> >>, << <<>> >>),
      Tree("mismatched",
           <<RootNode(<<>>), Recurse(1, Animal_ParentOf, "out", 1, <<>>)>>,
           << <<2>>, <<>> >>, << <<>>, <<>> >>,
           << <<Output("root_name", 1, "name")>>, <<Output("name", 2, "name")>> >>,
           << <<[path |-> 1, field |-> "color"]>>, <<>> >>),
      Tree("mismatched",
           <<RootNode(<<>>), Recurse(1, Animal_ParentOf, "out", 1, <<>>)>>,
           << <<2>>, <<>> >>, << <<>>, <<>> >>,
           << <<Output("root_name", 1, "name")>>, <<Output("color", 2, "color")>> >>,
           << <<>>, <<>> >>) }
    \cup
    { Tree("mismatched",
           <<RootNode(<<2>>), Traverse(1, Animal_LivesIn, "out", x[1], d, <<>>)>>,
           << <<>>, <<>> >>,
           << <<>>, FilterOf(x[2], x[3], 2) >>,
           << <<Output("root_id", 1, "animal_id")>>, <<Output("child_name", 2, x[4])>> >>,
           << <<>>, <<>> >>) :
        x \in { <<"Location", "none", "name", "color">>,
                <<"Location", "plain", "color", "name">>,
                <<"Location", "tolerant", "color", "name">>,
                <<"Entity", "none", "name", "name">> },
        d \in {0, 1} }

\* Trees with a filter whose operator constants.OPERATORS does not hold: on
\* the root, on a child (alone or under ||) or on a Recurse scope.
UnsupportedTrees ==
    { Tree("unsupported", <<RootNode(<<>>)>>, << <<>> >>,
           << FilterOf("unsupported", "name", 1) >>,
           << <<Output("name", 1, "name")>> >>, << <<>> >>),
      Tree("unsupported",
           <<RootNode(<<>>), Recurse(1, Animal_ParentOf, "out", 1, <<>>)>>,
           << <<2>>, <<>> >>, << <<>>, FilterOf("unsupported", "name", 2) >>,
           << <<Output("root_name", 1, "name")>>, <<Output("name", 2, "name")>> >>,
           << <<>>, <<>> >>) }
    \cup
    { Tree("unsupported",
           <<RootNode(<<2>>), Traverse(1, Animal_LivesIn, "out", "Location", d, <<>>)>>,
           << <<>>, <<>> >>,
           << <<>>, FilterOf(k, "name", 2) >>,
           << <<Output("root_id", 1, "animal_id")>>, <<Output("child_name", 2, "name")>> >>,
           << <<>>, <<>> >>) :
        k \in {"unsupported", "tolerant unsupported"}, d \in {0, 1} }

\* Animal { name @output
\*          in_Animal_ParentOf @optional { name @output
\*              out_Animal_ParentOf @recurse(depth: 1) { name @output } } }
\* The Recurse scope lies in the optional scope of its parent.
OptionalRecurseTrees ==
    { Tree("optional recurse",
           <<RootNode(<<2>>), Traverse(1, Animal_ParentOf, "in", "Animal", 1, <<>>),
             SqlNode(2, "Recurse", Animal_ParentOf, "out", 1, "Animal", 1, <<>>)>>,
           << <<>>, <<3>>, <<>> >>,
           << <<>>, <<>>, <<>> >>,
           << <<Output("root_name", 1, "name")>>, <<Output("child_name", 2, "name")>>,
              <<Output("rec_name", 3, "name")>> >>,
           << <<>>, <<>>, <<>> >>) }

\* Animal { name @output
\*          in_Animal_ParentOf { name @output @tag [@filter]
\*              out_Animal_ParentOf @recurse(depth: 1) { name @output @filter(%tag) } } }
\* The tag is a field of the child that is flattened onto the root.
ChildTagTrees ==
    { Tree("child tag",
           <<RootNode(<<2>>), Traverse(1, Animal_ParentOf, "in", "Animal", 0, <<>>),
             Recurse(2, Animal_ParentOf, "out", 1, <<>>)>>,
           << <<>>, <<3>>, <<>> >>,
           << <<>>, FilterOf(k, "name", 2),
              <<[predicate |-> BinaryComposition("=", LocalField("name"),
                                                 ContextField(2, "name")),
                 path |-> 3]>> >>,
           << <<Output("root_name", 1, "name")>>, <<Output("child_name", 2, "name")>>,
              <<Output("rec_name", 3, "name")>> >>,
           << <<>>, <<[path |-> 2, field |-> "name"]>>, <<>> >>) :
        k \in {"none", "plain"} }

\* Animal { name @output @tag
\*          in_Animal_ParentOf [@optional] { name @output @filter(%tag) } }
\* The filter and the tag it reads belong to the same unit.
SameUnitTagTrees ==
    { Tree("same unit tag",
           <<RootNode(<<2>>), Traverse(1, Animal_ParentOf, "in", "Animal", d, <<>>)>>,
           << <<>>, <<>> >>,
           << <<>>, FilterOf(op, "name", 2) >>,
           << <<Output(a, 1, "name")>>, <<Output("child_name", 2, "name")>> >>,
           << <<[path |-> 1, field |-> "name"]>>, <<>> >>) :
        op \in {"=", ">"}, a \in {"name", "root_name"}, d \in {0, 1} }

\* Animal { name @output
\*          out_Animal_ParentOf @recurse(depth: 1) { name @output }
\*          in_Animal_ParentOf { name @output
\*              out_Animal_ParentOf @recurse(depth: 1) { name @output } } }
\* The root defers a recursion of its own and one hoisted from its child; the
\* link columns of the two are animal_id of two aliases of Animal.
TwoRecursionTrees ==
    { Tree("two recursions",
           <<RootNode(<<2>>), Traverse(1, Animal_ParentOf, "in", "Animal", 0, <<>>),
             Recurse(1, Animal_ParentOf, "out", 1, <<>>),
             Recurse(2, Animal_ParentOf, "out", 1, <<>>)>>,
           << <<3>>, <<4>>, <<>>, <<>> >>,
           << <<>>, <<>>, <<>>, <<>> >>,
           << <<Output("root_name", 1, "name")>>, <<Output("child_name", 2, "name")>>,
              <<Output("rec_name", 3, "name")>>, <<Output("child_rec_name", 4, "name")>> >>,
           << <<>>, <<>>, <<>>, <<>> >>) }

Trees ==
    SingleTrees \cup SameUnitTagTrees \cup ChildTagTrees \cup ChildTrees
        \cup GrandchildTrees \cup RecurseTrees
        \cup HoistedTrees \cup NestedTrees \cup MismatchedTrees \cup UnsupportedTrees
        \cup OptionalRecurseTrees \cup TwoRecursionTrees

EmptyContext ==
    [selectable |-> [p \in DOMAIN tin.nodes |-> NoneValue],
     from_clause |-> [p \in DOMAIN tin.nodes |-> NoneValue],
     recursion_columns |-> [p \in DOMAIN tin.nodes |-> NoneValue],
     renames |-> {}, fresh |-> 1, ctes |-> <<>>, clauses |-> <<>>, entered |-> <<>>,
     flattened |-> <<>>]

(***************************************************************************)
(* SpecEmit: emit_code_from_ir on a tree, step by step. The call stack     *)
(* holds one frame per active call of _query_tree_to_query ("Q") and of    *)
(* _flatten_and_join_nonrecursive_nodes ("F"); a step that raises ends the *)
(* compilation and leaves the tree as it was written until then.           *)
(***************************************************************************)
Frame(proc, node, pc, link, outer) ==
    [proc |-> proc, node |-> node, pc |-> pc, i |-> 1, link |-> link, outer |-> outer,
     cte |-> NoneValue, source |-> NoneValue, out |-> NoneValue, sink |-> NoneValue,
     visited |-> <<node>>]

Top == stack[Len(stack)]

Rest == SubSeq(stack, 1, Len(stack) - 1)

State == [tree |-> tree, ctx |-> ctx, err |-> "", ret |-> NoneValue]

\* What one compilation gave: the query returned or the exception raised,
\* with the CTEs and recursive clauses built and the nodes entered.
Outcome(kind, exc, query, context) ==
    [kind |-> kind, exc |-> exc, query |-> query, ctes |-> context.ctes,
     clauses |-> context.clauses, entered |-> context.entered]

Commit(s, frames) ==
    /\ tree' = s.tree
    /\ ctx' = s.ctx
    /\ stack' = IF Ok(s) THEN frames ELSE <<>>
    /\ runs' = IF Ok(s) THEN runs ELSE Append(runs, Outcome("raised", s.err, NoneValue, s.ctx))
    /\ UNCHANGED <<tin, executionVars, joinVars, recursionVars, expressionVars>>

EmitInit ==
    /\ \E t \in Trees, k \in {"dict", "defaultdict"}, c \in Combinators :
          tin = [shape |-> t.shape, nodes |-> t.nodes, tree |-> t.tree, dicts |-> k,
                 backend |-> c]
    /\ tree = tin.tree
    /\ ctx = EmptyContext
    /\ stack = <<>>
    /\ runs = <<>>
    /\ db = NoneValue /\ mat = NoneValue /\ result = NoneValue
    /\ JoinIdle
    /\ RecursionIdle
    /\ ExpressionIdle

\* Lines 30-43: a fresh context over the dictionaries of the tree
EmitCodeFromIr ==
    /\ stack = <<>>
    /\ Len(runs) < MaxRuns
    /\ db = NoneValue
    /\ ctx' = EmptyContext
    /\ stack' = <<Frame("Q", 1, "enter", NoneValue, NoneValue)>>
    /\ UNCHANGED <<tin, tree, runs, executionVars, joinVars, recursionVars, expressionVars>>

\* Lines 46-49: the procedure is entered for a node and starts step 1
QueryTreeToQuery ==
    /\ stack # <<>>
    /\ Top.proc = "Q" /\ Top.pc = "enter"
    /\ ctx' = [ctx EXCEPT !.entered = Append(@, Top.node),
                          !.flattened = Append(@, Top.node)]
    /\ stack' = Rest \o <<[Top EXCEPT !.pc = "clause"],
                          Frame("F", Top.node, "children", NoneValue, NoneValue)>>
    /\ UNCHANGED <<tin, tree, runs, executionVars, joinVars, recursionVars, expressionVars>>

\* Mutant of FlattenChild: the first loop does not move on to the next child.
FlattenChildAgain ==
    /\ stack # <<>>
    /\ Top.proc = "F" /\ Top.pc = "children"
    /\ Top.i <= Len(NodeOf(Top.node).children_nodes)
    /\ ctx' = [ctx EXCEPT !.flattened = Append(@, NodeOf(Top.node).children_nodes[Top.i])]
    /\ stack' = Rest \o <<Top, Frame("F", NodeOf(Top.node).children_nodes[Top.i], "children",
                                     NoneValue, NoneValue)>>
    /\ UNCHANGED <<tin, tree, runs, executionVars, joinVars, recursionVars, expressionVars>>

\* Lines 90-92: the first loop descends into the next child
FlattenChild ==
    /\ stack # <<>>
    /\ Top.proc = "F" /\ Top.pc = "children"
    /\ Top.i <= Len(NodeOf(Top.node).children_nodes)
    /\ ctx' = [ctx EXCEPT !.flattened = Append(@, NodeOf(Top.node).children_nodes[Top.i])]
    /\ stack' = Rest \o <<[Top EXCEPT !.i = @ + 1],
                          Frame("F", NodeOf(Top.node).children_nodes[Top.i], "children",
                                NoneValue, NoneValue)>>
    /\ UNCHANGED <<tin, tree, runs, executionVars, joinVars, recursionVars, expressionVars>>

\* Line 95
CreateAndReferenceTable ==
    /\ stack # <<>>
    /\ Top.proc = "F" /\ Top.pc = "children"
    /\ Top.i > Len(NodeOf(Top.node).children_nodes)
    /\ \E s \in {_create_and_reference_table(State, Top.node)} :
          Commit(s, Rest \o <<[Top EXCEPT !.pc = "links", !.i = 1]>>)

\* Lines 291-293: the link of the next recursion of the node
CreateLinkForRecursion ==
    /\ stack # <<>>
    /\ Top.proc = "F" /\ Top.pc = "links"
    /\ Top.i <= Len(tree.recursions[Top.node])
    /\ \E s \in {_create_link_for_recursion(State, Top.node, tree.recursions[Top.node][Top.i])} :
          Commit(s, Rest \o <<[Top EXCEPT !.i = @ + 1]>>)

\* The second loop of lines 98-101 starts when the links are created.
AtSecondLoop(frame) ==
    /\ frame.proc = "F"
    /\ \/ frame.pc = "join"
       \/ frame.pc = "links" /\ frame.i > Len(tree.recursions[frame.node])

SecondLoopIndex(frame) == IF frame.pc = "join" THEN frame.i ELSE 1

\* Lines 98-101: the next child is flattened onto the node and joined
FlattenAndJoinChild ==
    /\ stack # <<>>
    /\ AtSecondLoop(Top)
    /\ SecondLoopIndex(Top) <= Len(NodeOf(Top.node).children_nodes)
    /\ \E s \in {JoinChild(State, Top.node,
                           NodeOf(Top.node).children_nodes[SecondLoopIndex(Top)])} :
          Commit(s, Rest \o <<[Top EXCEPT !.pc = "join", !.i = SecondLoopIndex(Top) + 1]>>)

\* Lines 92 and 102: the visited nodes return to the caller
ReturnVisitedNodes ==
    /\ Len(stack) > 1
    /\ AtSecondLoop(Top)
    /\ SecondLoopIndex(Top) > Len(NodeOf(Top.node).children_nodes)
    /\ LET caller == stack[Len(stack) - 1]
       IN  stack' = SubSeq(stack, 1, Len(stack) - 2)
                        \o <<[caller EXCEPT !.visited = IF caller.proc = "F"
                                                         THEN @ \o Top.visited
                                                         ELSE Top.visited]>>
    /\ UNCHANGED <<tin, tree, ctx, runs, executionVars, joinVars, recursionVars, expressionVars>>

\* Line 51
CreateRecursiveClause ==
    /\ stack # <<>>
    /\ Top.proc = "Q" /\ Top.pc = "clause"
    /\ \E s \in {_create_recursive_clause(State, Top.node, Top.link, Top.outer)} :
          Commit(s, Rest \o <<[Top EXCEPT
                                 !.pc = "cte",
                                 !.out = IF NodeOf(Top.node).block = "Recurse"
                                         THEN s.ctx.recursion_columns[Top.node].out_col
                                         ELSE NoneValue]>>)

\* Lines 53-55
MaterializeCte ==
    /\ stack # <<>>
    /\ Top.proc = "Q" /\ Top.pc = "cte"
    /\ \E s \in {Materialize(State, Top.node, Top.visited)} :
          Commit(s, Rest \o <<[Top EXCEPT !.pc = "recursions", !.i = 1, !.cte = s.ret]>>)

\* Lines 66-71: the next recursion of the unit is compiled on the unit's CTE
CompileRecursion ==
    /\ stack # <<>>
    /\ Top.proc = "Q" /\ Top.pc = "recursions"
    /\ Top.i <= Len(tree.recursions[Top.node])
    /\ LET recursive_node == tree.recursions[Top.node][Top.i]
       IN  \E s \in {ContextLookup(State, "recursion_columns", recursive_node)} :
              Commit(s, Rest \o <<[Top EXCEPT
                                     !.pc = "joined",
                                     !.source = ctx.recursion_columns[recursive_node].in_col],
                                  Frame("Q", recursive_node, "enter",
                                        ctx.recursion_columns[recursive_node].in_col,
                                        Top.cte)>>)

\* Line 61: a recursion returns its out column
ReturnOutColumn ==
    /\ Len(stack) > 1
    /\ Top.proc = "Q" /\ Top.pc = "recursions"
    /\ Top.i > Len(tree.recursions[Top.node])
    /\ NodeOf(Top.node).block # "QueryRoot"
    /\ stack' = SubSeq(stack, 1, Len(stack) - 2)
                    \o <<[stack[Len(stack) - 1] EXCEPT !.sink = Top.out]>>
    /\ UNCHANGED <<tin, tree, ctx, runs, executionVars, joinVars, recursionVars, expressionVars>>

\* Lines 72-75
FlattenAndJoinRecursion ==
    /\ stack # <<>>
    /\ Top.proc = "Q" /\ Top.pc = "joined"
    /\ LET recursive_node == tree.recursions[Top.node][Top.i]
       IN  \E s \in {JoinRecursion(State, Top.node, recursive_node,
                                   Top.source, Top.sink)} :
              Commit(s, Rest \o <<[Top EXCEPT !.pc = "recursions", !.i = @ + 1]>>)

\* Lines 58-60: the root returns the final query
FinalQuery ==
    /\ stack # <<>>
    /\ Top.proc = "Q" /\ Top.pc = "recursions"
    /\ Top.i > Len(tree.recursions[Top.node])
    /\ NodeOf(Top.node).block = "QueryRoot"
    /\ \E s \in {_create_query(State, Top.node, TRUE)} :
          /\ tree' = s.tree
          /\ ctx' = s.ctx
          /\ stack' = <<>>
          /\ runs' = Append(runs, IF Ok(s) THEN Outcome("query", "", s.ret, s.ctx)
                                  ELSE Outcome("raised", s.err, NoneValue, s.ctx))
          /\ UNCHANGED <<tin, executionVars, joinVars, recursionVars, expressionVars>>

(***************************************************************************)
(* Execution of the emitted query. The database evaluates the CTEs in the  *)
(* order they were built, each recursive clause before the CTE of its      *)
(* unit, and then the final query. A row of a from clause is a tuple of    *)
(* rows, one per selectable of the clause; a row of a CTE keeps the tuple  *)
(* it was selected from, so that equal projections stay distinct rows.     *)
(***************************************************************************)
Parameters == [name \in {"$v"} |-> 1]

\* Two animals and two locations; animal 1 is named 1 and location n is
\* named n. parents[n] and homes[n] are the parentof_id and livesin_id of
\* animal n; the junction table holds the same pairs as parentof_id.
Database(name, parents, homes) ==
    [Animal |-> {[animal_id |-> 1, name |-> 1, parentof_id |-> parents[1],
                  livesin_id |-> homes[1]],
                 [animal_id |-> 2, name |-> name, parentof_id |-> parents[2],
                  livesin_id |-> homes[2]]},
     Location |-> {[location_id |-> n, name |-> n] : n \in {1, 2}},
     Animal_FriendsWith |-> {[animal_id |-> n, friendswith_id |-> parents[n]] :
                                n \in {m \in {1, 2} : parents[m] # NULL}}]

Databases ==
    { Database(name, parents, homes) :
        name \in {1, 2},
        parents \in {<<NULL, NULL>>, <<2, NULL>>, <<NULL, 1>>, <<2, 1>>},
        homes \in {<<NULL, NULL>>, <<1, NULL>>, <<1, 2>>} }

\* The row an outer join puts where nothing matched
NullRow == [null |-> TRUE]

RowsOf(selectable) ==
    IF selectable.tbl = "cte" THEN mat.ctes[selectable.id]
    ELSE IF selectable.tbl = "recursive" THEN mat.clauses[selectable.id]
    ELSE db[selectable.tbl]

\* The value of column `name` of the selectable in one of its rows
Value(selectable, row, name) ==
    IF row = NullRow THEN NULL
    ELSE IF selectable.tbl = "cte" THEN row.cols[name]
    ELSE IF selectable.tbl = "recursive"
    THEN (IF name = selectable.out_edge_name THEN row.out ELSE row.in)
    ELSE row[name]

\* The selectables of a from clause, in the order of its joins
RECURSIVE Leaves(_), LeavesFrom(_, _)
Leaves(from_clause) == <<from_clause.base>> \o LeavesFrom(from_clause, 1)

LeavesFrom(from_clause, k) ==
    IF k > Len(from_clause.joins) THEN <<>>
    ELSE Leaves(from_clause.joins[k].target) \o LeavesFrom(from_clause, k + 1)

\* The value of a column in a row of a from clause with the given leaves
ColValue(leaves, row, column) ==
    Value(column.table, row[CHOOSE i \in DOMAIN leaves : leaves[i] = column.table],
          column.name)

\* left JOIN right ON onclause, or LEFT OUTER JOIN
JoinRows(left, left_leaves, right, right_leaves, join) ==
    LET leaves == left_leaves \o right_leaves
        On(row) == SqlEq(ColValue(leaves, row, join.onclause.left),
                         ColValue(leaves, row, join.onclause.right))
    IN  {p[1] \o p[2] : p \in {q \in left \X right : On(q[1] \o q[2])}}
          \cup
        (IF join.isouter
         THEN {l \o [i \in DOMAIN right_leaves |-> NullRow] :
                  l \in {x \in left : \A r \in right : ~On(x \o r)}}
         ELSE {})

RECURSIVE FromRows(_), JoinedFrom(_, _, _, _)
FromRows(from_clause) ==
    JoinedFrom(from_clause, 1, {<<r>> : r \in RowsOf(from_clause.base)},
               <<from_clause.base>>)

JoinedFrom(from_clause, k, rows, leaves) ==
    IF k > Len(from_clause.joins) THEN rows
    ELSE LET join == from_clause.joins[k]
         IN  CHOOSE joined \in
               { JoinedFrom(from_clause, k + 1,
                            JoinRows(left, leaves, right, Leaves(join.target), join),
                            leaves \o Leaves(join.target)) :
                   left \in {rows}, right \in {FromRows(join.target)} } : TRUE

\* SQL's AND and OR over three truth values
SqlOr(a, b) ==
    IF a = SqlTrue \/ b = SqlTrue THEN SqlTrue
    ELSE IF a = SqlFalse /\ b = SqlFalse THEN SqlFalse
    ELSE SqlUnknown

SqlAnd(a, b) ==
    IF a = SqlFalse \/ b = SqlFalse THEN SqlFalse
    ELSE IF a = SqlTrue /\ b = SqlTrue THEN SqlTrue
    ELSE SqlUnknown

\* a <operator> b on two values; column == None is column IS NULL
Compare(operator, a, b, is_null_test) ==
    IF is_null_test THEN (IF a = NULL THEN SqlTrue ELSE SqlFalse)
    ELSE IF a = NULL \/ b = NULL THEN SqlUnknown
    ELSE IF operator = "__gt__" THEN (IF a > b THEN SqlTrue ELSE SqlFalse)
    ELSE IF a = b THEN SqlTrue ELSE SqlFalse

Operand(e, leaves, row) ==
    IF e.kind = "column" THEN ColValue(leaves, row, e)
    ELSE IF e.kind = "bindparam" THEN Parameters[e.name]
    ELSE NULL

\* The truth value of a clause of the WHERE in a row
RECURSIVE Truth(_, _, _)
Truth(e, leaves, row) ==
    IF e.operator = "or_"
    THEN SqlOr(Truth(e.left, leaves, row), Truth(e.right, leaves, row))
    ELSE IF e.operator = "and_"
    THEN SqlAnd(Truth(e.left, leaves, row), Truth(e.right, leaves, row))
    ELSE Compare(e.operator, Operand(e.left, leaves, row), Operand(e.right, leaves, row),
                 e.operator = "__eq__" /\ e.right = NoneValue)

\* The selectables a clause reads
RECURSIVE Selectables(_)
Selectables(e) ==
    IF e.kind = "column" THEN {e.table}
    ELSE IF e.kind = "binary" THEN Selectables(e.left) \cup Selectables(e.right)
    ELSE {}

\* A selectable the query reads and its from clause does not hold is a from
\* element of its own: every row of it goes with every row of the clause.
RECURSIVE Cross(_, _, _)
Cross(rows, leaves, extra) ==
    IF extra = {} THEN [rows |-> rows, leaves |-> leaves]
    ELSE LET e == CHOOSE x \in extra : TRUE
         IN  Cross({row \o <<r>> : row \in rows, r \in RowsOf(e)}, Append(leaves, e),
                   extra \ {e})

\* SELECT columns FROM from_clause WHERE and_(*where)
Select(query) ==
    LET leaves == Leaves(query.from_clause)
        read == UNION {Selectables(query.where[i]) : i \in DOMAIN query.where}
                  \cup {query.columns[i].table : i \in DOMAIN query.columns}
        extra == {x \in read : \A i \in DOMAIN leaves : leaves[i] # x}
        keys == {query.columns[i].key : i \in DOMAIN query.columns}
        Column(key) == query.columns[CHOOSE i \in DOMAIN query.columns :
                                        /\ query.columns[i].key = key
                                        /\ \A j \in 1..(i - 1) : query.columns[j].key # key]
    IN  CHOOSE selected \in
          { { [cols |-> [key \in keys |-> ColValue(from.leaves, row, Column(key))],
               src |-> row] :
                row \in {x \in from.rows :
                           \A i \in DOMAIN query.where :
                               Truth(query.where[i], from.leaves, x) = SqlTrue} } :
              from \in {Cross(FromRows(query.from_clause), leaves, extra)} } : TRUE

\* WITH RECURSIVE: the recursive term on the rows of the last iteration,
\* until it yields none
RECURSIVE Iterate(_, _, _, _, _)
Iterate(table_rows, work, rows, names, bound) ==
    IF work = {} THEN rows
    ELSE CHOOSE all \in
           { Iterate(table_rows, new, rows \cup new, names, bound) :
               new \in {recursive_query(table_rows, work, names, bound)} } : TRUE

\* The rows of a recursive clause on the CTE of the enclosing unit
ClauseRows(clause) ==
    CHOOSE rows \in
      { Iterate(db[clause.names.recursive_table.tbl], anchor, anchor, clause.names,
                clause.depth) :
          anchor \in {anchor_query(db[clause.selectable.tbl],
                                   {Value(clause.outer_cte, r, clause.link) :
                                       r \in mat.ctes[clause.outer_cte.id]},
                                   clause.names)} } : TRUE

\* The compilation whose query is executed
Emitted == runs[1]

Execute ==
    /\ stack = <<>>
    /\ Len(runs) = 1
    /\ Emitted.kind = "query"
    /\ db = NoneValue
    /\ db' \in Databases
    /\ mat' = [ctes |-> <<>>, clauses |-> <<>>]
    /\ UNCHANGED <<compilationVars, result, joinVars, recursionVars, expressionVars>>

EvaluateRecursiveClause ==
    /\ db # NoneValue
    /\ Len(mat.clauses) < Len(Emitted.clauses)
    /\ Len(mat.ctes) < Len(Emitted.ctes)
    /\ Emitted.clauses[Len(mat.clauses) + 1].path = Emitted.ctes[Len(mat.ctes) + 1].path
    /\ mat' = [mat EXCEPT !.clauses = Append(@, ClauseRows(Emitted.clauses[Len(@) + 1]))]
    /\ UNCHANGED <<compilationVars, db, result, joinVars, recursionVars, expressionVars>>

EvaluateCte ==
    /\ db # NoneValue
    /\ Len(mat.ctes) < Len(Emitted.ctes)
    /\ \A k \in (Len(mat.clauses) + 1)..Len(Emitted.clauses) :
           Emitted.clauses[k].path # Emitted.ctes[Len(mat.ctes) + 1].path
    /\ mat' = [mat EXCEPT !.ctes = Append(@, Select(Emitted.ctes[Len(@) + 1].query))]
    /\ UNCHANGED <<compilationVars, db, result, joinVars, recursionVars, expressionVars>>

EvaluateFinalQuery ==
    /\ db # NoneValue
    /\ result = NoneValue
    /\ Len(mat.ctes) = Len(Emitted.ctes)
    /\ result' = [rows |-> Select(Emitted.query)]
    /\ UNCHANGED <<compilationVars, db, mat, joinVars, recursionVars, expressionVars>>

EmitNext ==
    \/ EmitCodeFromIr \/ QueryTreeToQuery \/ FlattenChild \/ CreateAndReferenceTable
    \/ CreateLinkForRecursion \/ FlattenAndJoinChild \/ ReturnVisitedNodes
    \/ CreateRecursiveClause \/ MaterializeCte \/ CompileRecursion \/ ReturnOutColumn
    \/ FlattenAndJoinRecursion \/ FinalQuery
    \/ Execute \/ EvaluateRecursiveClause \/ EvaluateCte \/ EvaluateFinalQuery

SpecEmit == EmitInit /\ [][EmitNext]_vars

\* A compilation is one sequential call: once emit_code_from_ir is entered,
\* the step it is at is taken.
CompileStep ==
    \/ QueryTreeToQuery \/ FlattenChild \/ CreateAndReferenceTable
    \/ CreateLinkForRecursion \/ FlattenAndJoinChild \/ ReturnVisitedNodes
    \/ CreateRecursiveClause \/ MaterializeCte \/ CompileRecursion \/ ReturnOutColumn
    \/ FlattenAndJoinRecursion \/ FinalQuery

SpecEmitFair == EmitInit /\ [][EmitNext]_vars /\ WF_vars(CompileStep)

(***************************************************************************)
(* What the emitted query is measured against: the outcome of the first    *)
(* compilation, the rows a traversal joins, and the value of a filter      *)
(* predicate on the outputs of one result row.                             *)
(***************************************************************************)
\* The scopes wrapped as CTEs: the root and every Recurse scope
Units == {p \in DOMAIN tin.nodes : NodeOf(p).block \in {"QueryRoot", "Recurse"}}

\* The tree has a Recurse scope
HasRecursion == \E p \in DOMAIN tin.nodes : NodeOf(p).block = "Recurse"

\* The backend's combinator is one the recursive CTE offers, or none is needed
CombinatorFits == HasRecursion => CteHasAttribute(tin.backend)

Occurrences(list, x) == Cardinality({i \in DOMAIN list : list[i] = x})

Executed == result # NoneValue

\* The first child scope of the root
ChildScope == Head(NodeOf(1).children_nodes)

\* The rows of the child scope that the traversal joins to the root row
Matches(outer_row) ==
    LET outer == Alias(NodeOf(1).type, 1)
        inner == Alias(NodeOf(ChildScope).type, 2)
        onclause == _get_join_condition(QueryMetadata,
                                        Scope(outer, NodeOf(1).type, NoneValue, "none"),
                                        Scope(inner, NodeOf(ChildScope).type,
                                              NodeOf(ChildScope).edge,
                                              NodeOf(ChildScope).direction), 3)
        Side(c, i, t) == IF c.table = outer THEN outer_row[c.name]
                         ELSE IF c.table = inner THEN i[c.name]
                         ELSE t[c.name]
        On(c, i, t) == SqlEq(Side(c.left, i, t), Side(c.right, i, t))
    IN  {i \in db[NodeOf(ChildScope).type] :
            IF onclause.kind = "junction"
            THEN \E t \in db[onclause.junction_table.tbl] :
                    On(onclause.outer_to_junction, i, t) /\ On(onclause.junction_to_inner, i, t)
            ELSE On(onclause, i, NullRow)}

\* The alias under which the tree outputs a field of a scope
OutputAlias(path, field) ==
    LET fields == tin.tree.outputs.val[path]
    IN  fields[CHOOSE i \in DOMAIN fields : fields[i].field = field].alias

\* The aliases of the outputs of the scopes below the root
InnerAliases ==
    UNION { {tin.tree.outputs.val[p][i].alias : i \in DOMAIN tin.tree.outputs.val[p]} :
              p \in DOMAIN tin.nodes \ {1} }

\* The value a result row has for a field of a scope
FieldValue(row, path, field) ==
    IF row = NullRow THEN NULL ELSE row.cols[OutputAlias(path, field)]

ExpressionValue(e, path, row) ==
    IF e.kind = "LocalField" THEN FieldValue(row, path, e.field_name)
    ELSE IF e.kind = "ContextField" THEN FieldValue(row, e.query_path, e.field)
    ELSE IF e.kind = "Variable" THEN Parameters[e.variable_name]
    ELSE NULL

\* The truth value of a filter predicate of the scope at `path` on a result
\* row: local fields and tag fields are read from the outputs of that row.
RECURSIVE PredicateValue(_, _, _)
PredicateValue(e, path, row) ==
    IF e.operator = "||"
    THEN SqlOr(PredicateValue(e.left, path, row), PredicateValue(e.right, path, row))
    ELSE IF e.operator = "&&"
    THEN SqlAnd(PredicateValue(e.left, path, row), PredicateValue(e.right, path, row))
    ELSE Compare(OPERATORS[e.operator].name, ExpressionValue(e.left, path, row),
                 ExpressionValue(e.right, path, row),
                 e.operator = "=" /\ e.right.kind = "Literal")

\* The filters the tree supplies for the scopes below the root
InnerFilters ==
    UNION { {tin.tree.filters.val[p][i] : i \in DOMAIN tin.tree.filters.val[p]} :
              p \in DOMAIN tin.nodes \ {1} }

\* A filter is null-tolerant when it is true of a scope whose fields are NULL.
NullTolerantFilters ==
    \A f \in InnerFilters : PredicateValue(f.predicate, f.path, NullRow) = SqlTrue

\* The filters that compare a field with a tag
TagFilters == {f \in InnerFilters : f.predicate.right.kind = "ContextField"}

OptionalExecuted ==
    /\ Executed
    /\ tin.shape \in {"child", "grandchild"}
    /\ NodeOf(ChildScope).optional_scopes_depth > 0

\* The root row appears exactly once in the result, every inner output NULL.
OnceWithNulls(outer_row) ==
    /\ Cardinality({r \in result.rows :
                      r.cols[OutputAlias(1, "animal_id")] = outer_row.animal_id}) = 1
    /\ \A r \in result.rows :
           r.cols[OutputAlias(1, "animal_id")] = outer_row.animal_id
               => \A alias \in InnerAliases : r.cols[alias] = NULL

\* C1 as stated: the second compilation of a tree, with a fresh context,
\* succeeds and gives the same select list, from clause, filters and CTEs as
\* the first.
C1_RecompilationIdentical ==
    (Len(runs) = 2 /\ runs[1].kind = "query") => runs[2] = runs[1]

C7_TagComparedOnSameRow ==
    Executed =>
        \A r \in result.rows :
            \A f \in TagFilters : PredicateValue(f.predicate, f.path, r) = SqlTrue

\* C10: in the compilation of a tree as supplied, no unit is entered or
\* wrapped as a CTE twice; a tree that fits the schema and the backend compiles
\* to a query,
\* and when a query is returned the procedure was entered exactly once for
\* every unit and for nothing else, every unit has exactly one CTE, and every
\* Recurse node is in the recursions list of exactly one unit, hoisted ones
\* included.
C10_EachUnitMaterializedOnce ==
    /\ Len(runs) = 0 =>
          \A u \in Units :
              /\ Occurrences(ctx.entered, u) <= 1
              /\ Cardinality({i \in DOMAIN ctx.ctes : ctx.ctes[i].path = u}) <= 1
    /\ Len(runs) >= 1 =>
          /\ (tin.shape \notin {"mismatched", "unsupported"} /\ CombinatorFits) =>
                runs[1].kind = "query"
          /\ \A i \in DOMAIN runs[1].entered : runs[1].entered[i] \in Units
          /\ \A i \in DOMAIN runs[1].ctes : runs[1].ctes[i].path \in Units
          /\ \A u \in Units :
                IF runs[1].kind = "query"
                THEN /\ Occurrences(runs[1].entered, u) = 1
                     /\ Cardinality({i \in DOMAIN runs[1].ctes :
                                        runs[1].ctes[i].path = u}) = 1
                ELSE /\ Occurrences(runs[1].entered, u) <= 1
                     /\ Cardinality({i \in DOMAIN runs[1].ctes :
                                        runs[1].ctes[i].path = u}) <= 1
    /\ (Len(runs) = 1 /\ stack = <<>> /\ runs[1].kind = "query") =>
          \A r \in {u \in Units : NodeOf(u).block = "Recurse"} :
              Cardinality({ui \in Units \X DOMAIN tin.nodes :
                              /\ ui[2] \in DOMAIN tree.recursions[ui[1]]
                              /\ tree.recursions[ui[1]][ui[2]] = r}) = 1

\* A finished compilation of a tree whose Recurse node was hoisted from a
\* non-recursive child onto the root.
C10_Witness ==
    /\ Len(runs) = 1 /\ stack = <<>>
    /\ tin.shape = "hoisted"
    /\ runs[1].kind = "query"
    /\ tree.recursions[1] = <<3>> /\ tree.recursions[2] = <<3>>
    /\ Occurrences(runs[1].entered, 3) = 1
    /\ Len(runs[1].ctes) = 2

C4_AnchorPairsStartWithItself ==
    rphase \in {"recursive", "done"} =>
        \A s \in rin.links :
            /\ \E r \in rcte : r.in = s /\ r.out = s /\ r.depth = 0
            /\ <<s, s>> \in RecursionResult(rin.animals, rin.links, rnames, rcte)

C4_Witness ==
    /\ RecursionDone
    /\ rin.direction = INBOUND_EDGE_DIRECTION
    /\ Cardinality(rin.links) = 2
    /\ \E r \in rcte : r.depth > 0
    /\ \A s \in rin.links : \E r \in rcte : r.in = s /\ r.out = s /\ r.depth = 0

\* C5 as stated: over an acyclic edge relation and with depth bound N, the
\* result for a starting node is the node and every node within N hops of it
\* along the edge in the block's direction, and no row is deeper than N.
C5_ExactReachabilityWithinBound ==
    (RecursionDone /\ Acyclic(Hop)) =>
        /\ \A r \in rcte : r.depth <= rin.depth
        /\ \A s \in rin.links :
               { w[2] : w \in { x \in RecursionResult(rin.animals, rin.links, rnames, rcte) :
                                   x[1] = s } }
                   = ReachWithin(Hop, s, Min(rin.depth, Cardinality(NodeIds)))

JoinDone == jres # Pending

HasShortJunction == has_table(jin.md, short_junction_table_name(jin.inner.edge.name))

HasLongJunction ==
    has_table(jin.md, long_junction_table_name(jin.inner.edge.name, jin.inner.type))

\* The foreign keys declared between the tables of the two scopes.
FKsBetween ==
    {f \in jin.md.fks :
        \/ f.tbl = jin.inner.selectable.tbl /\ f.ref = jin.outer.selectable.tbl
        \/ f.tbl = jin.outer.selectable.tbl /\ f.ref = jin.inner.selectable.tbl}

\* C8: when the table named as the edge and the table named as the edge with
\* the inner scope's type suffix both exist, join resolution raises and the
\* parent's from clause is never joined: no query is produced.
C8_AmbiguousJunctionRaises ==
    (JoinDone /\ HasShortJunction /\ HasLongJunction)
        => (jres.kind = "raised" /\ jres.from_clause = NoneValue)

C8_Witness == JoinDone /\ HasShortJunction /\ HasLongJunction /\ jres.kind = "raised"

\* C9 as stated: with neither junction table, compilation fails.
C9_NeitherJunctionRaises ==
    (JoinDone /\ ~HasShortJunction /\ ~HasLongJunction) => jres.kind = "raised"

\* C9 as amended: with neither junction table, resolution falls through to
\* the direct foreign-key lookup: it raises when no foreign key links the two
\* tables, and joins on the foreign key when exactly one links them.
C9_NeitherJunctionFallsThrough ==
    (JoinDone /\ ~HasShortJunction /\ ~HasLongJunction)
        => /\ (FKsBetween = {} => jres.kind = "raised")
           /\ (Cardinality(FKsBetween) = 1
                  => /\ jres.kind = "joined"
                     /\ jres.onclause.kind = "binary"
                     /\ \A f \in FKsBetween :
                            /\ jres.onclause.right.name = f.col
                            /\ jres.onclause.left.name = f.refcol)

C9_Witness ==
    /\ JoinDone /\ ~HasShortJunction /\ ~HasLongJunction
    /\ Cardinality(FKsBetween) = 1 /\ jres.kind = "joined"

\* C11: when a unit is wrapped as a CTE, every Recurse node in its recursions
\* list (its own or hoisted from a flattened descendant) has its inbound link
\* column registered in the context and that column is among the columns of
\* the unit's query, so the CTE has a column of its name; and every recursive
\* clause built found its link column on the CTE of the outer unit.
C11_LinkColumnsProjected ==
    /\ \A i \in DOMAIN ctx.ctes :
          \A k \in DOMAIN tree.recursions[ctx.ctes[i].path] :
              LET unit == ctx.ctes[i]
                  columns == ctx.recursion_columns[tree.recursions[unit.path][k]]
              IN  /\ columns # NoneValue
                  /\ \E c \in DOMAIN unit.query.columns :
                        unit.query.columns[c] = columns.in_col
                  /\ columns.in_col.key \in unit.selectable.names
    /\ \A i \in DOMAIN ctx.clauses :
          /\ ctx.clauses[i].link \in ctx.clauses[i].outer_cte.names
          /\ \E j \in DOMAIN ctx.ctes :
                /\ ctx.ctes[j].selectable = ctx.clauses[i].outer_cte
                /\ \E k \in DOMAIN tree.recursions[ctx.ctes[j].path] :
                      tree.recursions[ctx.ctes[j].path][k] = ctx.clauses[i].path

\* The recursive clause of a Recurse node hoisted from a flattened child has
\* been built on the CTE of the root, which projects the link column taken
\* from the child's table.
C11_Witness ==
    /\ tin.shape = "hoisted"
    /\ Len(runs) = 0
    /\ \E i \in DOMAIN ctx.clauses :
          /\ ctx.clauses[i].path = 3
          /\ ctx.clauses[i].outer_cte = ctx.ctes[1].selectable
          /\ ctx.ctes[1].path = 1
          /\ ctx.recursion_columns[3].in_col.table # ctx.ctes[1].query.columns[1].table
          /\ ctx.clauses[i].link = ctx.recursion_columns[3].in_col.key

\* The output aliases the tree requests, over all its scopes
RequestedAliases ==
    UNION { {tin.tree.outputs.val[p][i].alias : i \in DOMAIN tin.tree.outputs.val[p]} :
              p \in DOMAIN tin.nodes }

\* C12: a query returned for the root projects exactly the output aliases
\* requested over the whole tree, each once, the outputs of Recurse subtrees
\* included; none of its columns is a tag column or a link column of a unit's
\* query, and it has no WHERE clause.
C12_FinalQueryProjectsOutputsOnly ==
    \A n \in DOMAIN runs :
        runs[n].kind = "query" =>
            LET query == runs[n].query
            IN  /\ query.final
                /\ {query.columns[i].key : i \in DOMAIN query.columns} = RequestedAliases
                /\ Len(query.columns) = Cardinality(RequestedAliases)
                /\ query.where = <<>>
                /\ \A i \in DOMAIN query.columns :
                      /\ query.columns[i].table.tbl = "cte"
                      /\ query.columns[i].name = query.columns[i].key

\* A query returned for a tree with a tag, two nested recursions and a
\* filter: the CTE of the root holds a tag column and a link column besides
\* the root's output, the final query the three outputs only.
C12_Witness ==
    /\ Len(runs) >= 1 /\ runs[1].kind = "query"
    /\ tin.shape = "nested"
    /\ Len(runs[1].ctes[1].query.columns) = 3
    /\ Len(runs[1].query.columns) = 3
    /\ \E i \in DOMAIN runs[1].ctes : runs[1].ctes[i].query.where # <<>>
    /\ \E i \in DOMAIN runs[1].query.columns :
          /\ runs[1].query.columns[i].key = "ancestor_or_self"
          /\ runs[1].query.columns[i].table = runs[1].ctes[3].selectable

\* C13 as stated: a compilation writes to its context only; the tree's filter
\* lists, output-field maps, tag lists and recursions lists are, at every
\* step of a compilation and after it, what they were when the tree was
\* supplied.
C13_InputTreeUnchanged == tree = tin.tree

\* A compilation is under way
Compiling == stack # <<>>

\* No node is flattened twice and none is compiled twice in a compilation,
\* only units are compiled, and the call stack holds at most one frame of
\* each procedure per node; a compilation that returned a query flattened
\* every node once and compiled every unit once.
StepsBounded ==
    /\ \A p \in DOMAIN tin.nodes :
          /\ Occurrences(ctx.flattened, p) <= 1
          /\ Occurrences(ctx.entered, p) <= (IF p \in Units THEN 1 ELSE 0)
    /\ Len(stack) <= 2 * Len(tin.nodes)
    /\ (~Compiling /\ runs # <<>> /\ runs[Len(runs)].kind = "query") =>
          \A p \in DOMAIN tin.nodes :
              /\ Occurrences(ctx.flattened, p) = 1
              /\ p \in Units => Occurrences(ctx.entered, p) = 1

\* C14: every compilation ends, with a query or with an exception, and on
\* its way flattens no node twice and compiles no Recurse node twice, so its
\* steps are bounded by the number of nodes of the tree.
C14_CompilationTerminates == []StepsBounded /\ (Compiling ~> ~Compiling)

\* A tree with two nested recursions compiled twice: the first compilation
\* returned a query after three calls of each procedure, the second one
\* raised.
C14_Witness ==
    /\ ~Compiling /\ Len(runs) = 2
    /\ tin.shape = "nested"
    /\ runs[1].kind = "query" /\ Len(runs[1].entered) = 3
    /\ runs[2].kind = "raised"

\* The local fields a filter predicate reads
RECURSIVE LocalFields(_)
LocalFields(e) ==
    IF e.kind = "LocalField" THEN {e.field_name}
    ELSE IF e.kind = "BinaryComposition" THEN LocalFields(e.left) \cup LocalFields(e.right)
    ELSE {}

\* The field is not a column of the table of the scope at the path
NotAColumn(path, field) ==
    /\ NodeOf(path).type \in DOMAIN TableColumns
    /\ field \notin TableColumns[NodeOf(path).type]

\* The tree as supplied has a scope whose type has no table, or an output,
\* filter or tag field that is not a column of its scope's table.
SchemaMismatch ==
    \E p \in DOMAIN tin.nodes :
        \/ ~has_table(QueryMetadata, NodeOf(p).type)
        \/ \E i \in DOMAIN tin.tree.outputs.val[p] :
              NotAColumn(tin.tree.outputs.val[p][i].path, tin.tree.outputs.val[p][i].field)
        \/ \E i \in DOMAIN tin.tree.tags.val[p] :
              NotAColumn(tin.tree.tags.val[p][i].path, tin.tree.tags.val[p][i].field)
        \/ \E i \in DOMAIN tin.tree.filters.val[p] :
              \E f \in LocalFields(tin.tree.filters.val[p][i].predicate) :
                  NotAColumn(tin.tree.filters.val[p][i].path, f)

\* C15: every compilation of a tree with an output, filter or tag field that
\* is not a column of its scope's table, or with a scope whose type has no
\* table, raises an exception and returns no query.
C15_SchemaMismatchRaises ==
    SchemaMismatch =>
        \A n \in DOMAIN runs :
            /\ runs[n].kind = "raised"
            /\ runs[n].query = NoneValue
            /\ runs[n].exc \in {"KeyError", "GraphQLCompilationError"} \/ ~CombinatorFits

\* A compilation raised for a tag field that is no column, after the table
\* of the scope was created.
C15_Witness ==
    /\ SchemaMismatch
    /\ \E p \in DOMAIN tin.nodes : tin.tree.tags.val[p] # <<>>
    /\ \A p \in DOMAIN tin.nodes : has_table(QueryMetadata, NodeOf(p).type)
    /\ Len(runs) >= 1
    /\ runs[1].kind = "raised" /\ runs[1].exc = "KeyError"
    /\ ctx.selectable[1] # NoneValue

RECURSIVE OperatorsOf(_)
OperatorsOf(e) ==
    IF e.kind = "BinaryComposition"
    THEN {e.operator} \cup OperatorsOf(e.left) \cup OperatorsOf(e.right)
    ELSE {}

\* The filters the tree supplies, over all its scopes
TreeFilters ==
    UNION { {tin.tree.filters.val[p][i] : i \in DOMAIN tin.tree.filters.val[p]} :
              p \in DOMAIN tin.nodes }

\* Those that apply an operator that constants.OPERATORS does not hold
UnsupportedFilters ==
    {f \in TreeFilters : ~(OperatorsOf(f.predicate) \subseteq DOMAIN OPERATORS)}

\* C17: every compilation of a tree with a filter whose operator is not
\* supported raises an exception; no query is returned for it and none is
\* executed.
C17_UnsupportedFilterRaises ==
    UnsupportedFilters # {} =>
        /\ \A n \in DOMAIN runs : runs[n].kind = "raised" /\ runs[n].query = NoneValue
        /\ db = NoneValue

\* A compilation raised on the unsupported operator of a filter that sits
\* under || on an optional child, when the unit of the root was assembled.
C17_Witness ==
    /\ \E f \in UnsupportedFilters : f.predicate.operator = "||" /\ f.path = 2
    /\ NodeOf(2).optional_scopes_depth > 0
    /\ Len(runs) >= 1
    /\ runs[1].kind = "raised" /\ runs[1].exc = "KeyError"
    /\ runs[1].ctes = <<>>
    /\ ctx.from_clause[2] = NoneValue /\ ctx.selectable[2] # NoneValue

\* The child a join step of the frame on top is about: the next child of the
\* second loop, or the recursion that has just been compiled.
JoinedChild ==
    IF Top.pc = "joined" THEN tree.recursions[Top.node][Top.i]
    ELSE NodeOf(Top.node).children_nodes[SecondLoopIndex(Top)]

AtJoin ==
    /\ stack # <<>>
    /\ \/ Top.proc = "Q" /\ Top.pc = "joined"
       \/ /\ AtSecondLoop(Top)
          /\ SecondLoopIndex(Top) <= Len(NodeOf(Top.node).children_nodes)

\* The joins a step appends to the from clause of the node on top
NewJoins ==
    SubSeq(ctx'.from_clause[Top.node].joins,
           Len(ctx.from_clause[Top.node].joins) + 1,
           Len(ctx'.from_clause[Top.node].joins))

JoinKindFollowsOptional ==
    (AtJoin /\ vars' # vars /\ stack' # <<>>) =>
        /\ Len(NewJoins) \in {1, 2}
        /\ \A n \in DOMAIN NewJoins :
              NewJoins[n].isouter = (NodeOf(JoinedChild).optional_scopes_depth > 0)
        /\ NewJoins[Len(NewJoins)].target = ctx.from_clause[JoinedChild]

\* C18: a step that joins a child, flattened or a compiled Recurse child,
\* onto its parent appends one join, or two through a junction table; every
\* join appended is LEFT OUTER exactly when the child's optional_scopes_depth
\* is positive and INNER otherwise, and the last one joins the child's from
\* clause.
C18_JoinKindFollowsOptional == [][JoinKindFollowsOptional]_vars

\* An optional child joined through the junction table: two outer joins on
\* the from clause of the root.
C18_Witness ==
    /\ tin.shape = "child" /\ NodeOf(2).optional_scopes_depth = 1
    /\ Len(runs) = 0
    /\ ctx.from_clause[1] # NoneValue
    /\ Len(ctx.from_clause[1].joins) = 2
    /\ \A n \in {1, 2} : ctx.from_clause[1].joins[n].isouter
    /\ ctx.from_clause[1].joins[1].target.base.tbl = "Animal_FriendsWith"

\* The compiled Recurse child of an optional scope, hoisted to the root and
\* joined outer onto the CTE of the root
OptionalRecursionJoined ==
    /\ tin.shape = "optional recurse"
    /\ Len(runs) = 0
    /\ ctx.from_clause[1] # NoneValue
    /\ ctx.from_clause[1].base.tbl = "cte"
    /\ Len(ctx.from_clause[1].joins) = 1
    /\ ctx.from_clause[1].joins[1].isouter
    /\ ctx.from_clause[1].joins[1].target.base.tbl = "cte"

ElementsOf(seq) == {seq[n] : n \in DOMAIN seq}

\* A step of the second loop that flattens a child onto the node on top
AtFlatten ==
    /\ stack # <<>>
    /\ AtSecondLoop(Top)
    /\ SecondLoopIndex(Top) <= Len(NodeOf(Top.node).children_nodes)

FlattenedChild == NodeOf(Top.node).children_nodes[SecondLoopIndex(Top)]

\* The parent holds what the child held, and the child's entries for
\* filters, output fields and from clause are deleted.
MergedIntoParent ==
    /\ ElementsOf(DictGet(tree.filters, FlattenedChild))
           \subseteq ElementsOf(DictGet(tree'.filters, Top.node))
    /\ ElementsOf(DictGet(tree.outputs, FlattenedChild))
           \subseteq ElementsOf(DictGet(tree'.outputs, Top.node))
    /\ ElementsOf(DictGet(tree.tags, FlattenedChild))
           \subseteq ElementsOf(DictGet(tree'.tags, Top.node))
    /\ FlattenedChild \notin tree'.filters.keys
    /\ FlattenedChild \notin tree'.outputs.keys
    /\ ctx.from_clause[FlattenedChild] # NoneValue
    /\ ctx'.from_clause[FlattenedChild] = NoneValue

\* C19 as stated: after a non-recursive child is flattened into its parent,
\* the parent holds all the child's filters, output fields and tags, and the
\* child's entries for filters, output fields, tags and from clause are
\* deleted.
C19_ChildEntriesDeleted ==
    [][(AtFlatten /\ vars' # vars /\ stack' # <<>>) =>
           MergedIntoParent /\ FlattenedChild \notin tree'.tags.keys]_vars

\* C19 as amended: the parent holds all the child's filters, output fields
\* and tags, and the child's entries for filters, output fields and from
\* clause are deleted; the child's entry for tags stays as it was.
C19_ChildEntriesDeletedButTags ==
    [][(AtFlatten /\ vars' # vars /\ stack' # <<>>) =>
           /\ MergedIntoParent
           /\ FlattenedChild \in tree'.tags.keys
           /\ DictGet(tree'.tags, FlattenedChild) = DictGet(tree.tags, FlattenedChild)]_vars

\* The child that holds a tag and a filter is flattened onto the root: the
\* root holds the tag and the filter, the child still has its tag.
C19_Witness ==
    /\ tin.shape = "child tag"
    /\ Len(runs) = 0
    /\ 2 \notin tree.outputs.keys /\ 2 \notin tree.filters.keys
    /\ ctx.selectable[2] # NoneValue /\ ctx.from_clause[2] = NoneValue
    /\ DictGet(tree.filters, 1) # <<>>
    /\ [path |-> 2, field |-> "name"] \in ElementsOf(DictGet(tree.tags, 1))
    /\ 2 \in tree.tags.keys
    /\ DictGet(tree.tags, 2) = <<[path |-> 2, field |-> "name"]>>

\* The direct lookup between the two scopes, as line 451 makes it
DirectLookup ==
    _try_get_direct_join_condition(jin.md, jin.outer.selectable, jin.inner.selectable)

\* The foreign-key column of the returned condition is <prefix>_id.
NamedAfterEdge == jres.onclause.right.name = IdColumn(jin.inner.edge.second)

\* The foreign-key column is a column of the inner table for direction out
\* and of the outer table for direction in, the other column of the other.
PlacedByDirection ==
    IF jin.inner.direction = "in"
    THEN /\ jres.onclause.right.table = jin.outer.selectable
         /\ jres.onclause.left.table = jin.inner.selectable
    ELSE /\ jres.onclause.right.table = jin.inner.selectable
         /\ jres.onclause.left.table = jin.outer.selectable

\* C20: when no junction table exists and the direct foreign-key lookup is
\* not a single condition, every join condition returned has its foreign-key
\* column named <prefix>_id for the prefix of the edge name and its columns
\* placed according to the direction.
C20_NamedAndPlaced ==
    (/\ JoinDone /\ ~HasShortJunction /\ ~HasLongJunction
     /\ DirectLookup.kind # "binary"
     /\ jres.kind = "joined")
        => NamedAfterEdge /\ PlacedByDirection

\* The candidates between the two scopes that pass both filters: the
\* foreign-key column is <prefix>_id and the columns are placed by direction.
SurvivingCandidates ==
    LET inbound == jin.inner.direction = INBOUND_EDGE_DIRECTION
        inner == IF inbound THEN jin.outer.selectable ELSE jin.inner.selectable
        outer == IF inbound THEN jin.inner.selectable ELSE jin.outer.selectable
    IN  {o \in _get_direct_onclauses(jin.md, jin.outer.selectable, jin.inner.selectable) :
            /\ o.right.name = IdColumn(jin.inner.edge.second)
            /\ o.right.table = inner /\ o.left.table = outer}

\* What join resolution returned is one condition or one junction triple.
OneConditionOrTriple ==
    \/ jres.onclause.kind = "binary"
    \/ /\ jres.onclause.kind = "junction"
       /\ jres.onclause.outer_to_junction.kind = "binary"
       /\ jres.onclause.junction_to_inner.kind = "binary"

\* C21: join resolution returns exactly one join condition (or one junction
\* triple) or raises; without a junction table and without a unique direct
\* lookup, it raises when zero or more than one candidate survive the name
\* and direction filters.
C21_OneCandidateOrRaise ==
    JoinDone =>
        /\ jres.kind = "raised" \/ (jres.kind = "joined" /\ OneConditionOrTriple)
        /\ (/\ ~HasShortJunction /\ ~HasLongJunction
            /\ DirectLookup.kind # "binary"
            /\ Cardinality(SurvivingCandidates) # 1) => jres.kind = "raised"

\* The same edge resolved from its other end: the scopes change places and
\* the direction is reversed.
FromOtherEnd ==
    _get_join_condition(jin.md,
                        Scope(Alias(jin.inner.selectable.tbl, 1), jin.inner.type,
                              NoneValue, "none"),
                        Scope(Alias(jin.outer.selectable.tbl, 2), jin.outer.type,
                              jin.inner.edge,
                              IF jin.inner.direction = "in" THEN "out" ELSE "in"),
                        3)

OneJunction == HasShortJunction # HasLongJunction

\* The junction columns of the triple carry the prefixes of the edge name:
\* the first on the outer side and the second on the inner side for
\* direction out, swapped for direction in.
PrefixedByEdge ==
    LET inbound == jin.inner.direction = INBOUND_EDGE_DIRECTION
    IN  /\ jres.onclause.kind = "junction"
        /\ jres.onclause.junction_table.tbl \in JunctionNames(<<jin.outer.type, jin.inner.type,
                                                                jin.inner.edge>>)
        /\ StartsWith(jres.onclause.outer_to_junction.right.name,
                      IF inbound THEN jin.inner.edge.second ELSE jin.inner.edge.first)
        /\ StartsWith(jres.onclause.junction_to_inner.right.name,
                      IF inbound THEN jin.inner.edge.first ELSE jin.inner.edge.second)

\* From the other end the triple uses the same two junction columns, each on
\* the other side.
SamePairsFromOtherEnd ==
    /\ FromOtherEnd.kind = "junction"
    /\ FromOtherEnd.outer_to_junction.right.name = jres.onclause.junction_to_inner.right.name
    /\ FromOtherEnd.junction_to_inner.right.name = jres.onclause.outer_to_junction.right.name
    /\ FromOtherEnd.outer_to_junction.left.name = jres.onclause.junction_to_inner.left.name
    /\ FromOtherEnd.junction_to_inner.left.name = jres.onclause.outer_to_junction.left.name

\* C22: when exactly one junction table exists for the edge, the triple that
\* join resolution returns uses, on the outer side, the junction column
\* prefixed by the first component of the edge name and, on the inner side,
\* the one prefixed by the second component for direction out, the prefixes
\* swapped for direction in; resolved from the other end, the edge relates
\* the same pairs of rows.
C22_JunctionTripleByPrefix ==
    (JoinDone /\ OneJunction /\ jres.kind = "joined") =>
        PrefixedByEdge /\ SamePairsFromOtherEnd

\* The materialization unit of a scope: the nearest of the scope and its
\* ancestors that is the root or a Recurse scope.
RECURSIVE UnitOf(_)
UnitOf(p) == IF p \in Units THEN p ELSE UnitOf(NodeOf(p).parent)

FiltersOfUnit(unit) == {f \in TreeFilters : UnitOf(f.path) = unit}

RECURSIVE ClauseOperators(_)
ClauseOperators(clause) ==
    IF clause.kind = "binary"
    THEN {clause.operator} \cup ClauseOperators(clause.left) \cup ClauseOperators(clause.right)
    ELSE {}

RECURSIVE ClauseColumns(_)
ClauseColumns(clause) ==
    IF clause.kind = "column" THEN {clause}
    ELSE IF clause.kind = "binary"
    THEN ClauseColumns(clause.left) \cup ClauseColumns(clause.right)
    ELSE {}

\* The clause applies the operators of the filter to the fields the filter
\* names, as columns of the table of the filter's scope.
CompiledFrom(clause, filter) ==
    /\ ClauseOperators(clause) = {OPERATORS[o].name : o \in OperatorsOf(filter.predicate)}
    /\ \A field \in LocalFields(filter.predicate) :
          \E column \in ClauseColumns(clause) :
             column.name = field /\ column.table.tbl = NodeOf(filter.path).type
    /\ \A column \in ClauseColumns(clause) :
          \/ column.table.tbl = "cte"
          \/ /\ column.table.tbl = NodeOf(filter.path).type
             /\ column.name \in LocalFields(filter.predicate)

\* C23: in the query returned for the tree, every filter of the tree is a
\* clause of the WHERE of exactly one CTE, that of the unit of the filter's
\* scope, and is there once; the WHERE of a CTE holds nothing else and the
\* final query has no WHERE.
C23_EachFilterInOneCte ==
    (Len(runs) >= 1 /\ runs[1].kind = "query") =>
        /\ runs[1].query.where = <<>>
        /\ \A n \in DOMAIN runs[1].ctes :
              LET cte == runs[1].ctes[n]
              IN  /\ Len(cte.query.where) = Cardinality(FiltersOfUnit(cte.path))
                  /\ \A f \in FiltersOfUnit(cte.path) :
                        Cardinality({k \in DOMAIN cte.query.where :
                                        CompiledFrom(cte.query.where[k], f)}) = 1
        /\ \A f \in TreeFilters : \E n \in DOMAIN runs[1].ctes :
              runs[1].ctes[n].path = UnitOf(f.path)

\* A tree with a filter on a flattened child and a filter on a Recurse
\* scope compiled: one clause in the CTE of the root, one in that of the
\* Recurse scope.
C23_Witness ==
    /\ tin.shape = "child tag"
    /\ Len(runs) >= 1 /\ runs[1].kind = "query"
    /\ Cardinality(TreeFilters) = 2
    /\ \E n, m \in DOMAIN runs[1].ctes :
          /\ runs[1].ctes[n].path = 1 /\ Len(runs[1].ctes[n].query.where) = 1
          /\ runs[1].ctes[m].path = 3 /\ Len(runs[1].ctes[m].query.where) = 1

RECURSIVE ContextFields(_)
ContextFields(e) ==
    IF e.kind = "ContextField" THEN {e}
    ELSE IF e.kind = "BinaryComposition" THEN ContextFields(e.left) \cup ContextFields(e.right)
    ELSE {}

\* The query of the unit on top is created next: its filters are compiled
\* against the context as it is now.
AtCreateQuery == stack # <<>> /\ Top.proc = "Q" /\ Top.pc = "cte"

\* The tag references in the filters the unit on top owns
TagReferences ==
    IF Top.node \in tree.filters.keys
    THEN UNION {ContextFields(DictGet(tree.filters, Top.node)[i].predicate) :
                   i \in DOMAIN DictGet(tree.filters, Top.node)}
    ELSE {}

RenameRecorded(tag) ==
    \E r \in ctx.renames : r.path = tag.query_path /\ r.field = tag.field

\* C24: when the filters of a unit are compiled, every tag reference in
\* them finds its column on the selectable of the tag's scope: under the raw
\* field name, with no rename recorded, while that scope is a table alias,
\* and under the recorded rename once the scope is on a CTE.
C24_TagColumnExists ==
    AtCreateQuery =>
        \A tag \in TagReferences :
            LET tag_selectable == ctx.selectable[tag.query_path]
                tag_column_name == TagColumnName(ctx.renames, tag.query_path, tag.field)
            IN  /\ tag_selectable # NoneValue
                /\ HasColumn(tag_selectable, tag_column_name)
                /\ IF tag_selectable.tbl = "cte"
                   THEN RenameRecorded(tag)
                   ELSE ~RenameRecorded(tag) /\ tag_column_name = tag.field

\* The filter of a Recurse scope reads a tag of the root, whose field is
\* also an output: the root is on its CTE, and the column is found under
\* the label the tag was given and not under the output alias.
C24_Witness ==
    /\ AtCreateQuery
    /\ tin.shape = "hoisted" /\ Top.node = 3
    /\ \E tag \in TagReferences :
          /\ ctx.selectable[tag.query_path].tbl = "cte"
          /\ RenameRecorded(tag)
          /\ TagColumnName(ctx.renames, tag.query_path, tag.field)
                 \notin {tag.field, DictGet(tree.outputs, 1)[1].alias}
          /\ DictGet(tree.outputs, 1)[1].field = tag.field

\* The filter of a child reads a tag of the root in the same unit: the
\* root is still a table alias and the raw field name is looked up.
TagOnTableAlias ==
    /\ AtCreateQuery
    /\ tin.shape = "same unit tag"
    /\ \E tag \in TagReferences : ctx.selectable[tag.query_path].tbl = "Animal"

RecurseNodes == {p \in DOMAIN tin.nodes : NodeOf(p).block = "Recurse"}

\* The unit that defers a Recurse node: the unit of its parent scope
DeferringUnit(r) == UnitOf(NodeOf(r).parent)

CteIndex(p) == {i \in DOMAIN ctx.ctes : ctx.ctes[i].path = p}

ClauseIndex(p) == {i \in DOMAIN ctx.clauses : ctx.clauses[i].path = p}

\* The joins of the unit's from clause onto the CTE of the Recurse node
RecursionJoins(r) ==
    LET from_clause == ctx.from_clause[DeferringUnit(r)]
    IN  IF from_clause = NoneValue THEN {}
        ELSE {from_clause.joins[k] : k \in
                 {j \in DOMAIN from_clause.joins :
                     \E i \in CteIndex(r) :
                        from_clause.joins[j].target.base = ctx.ctes[i].selectable}}

LinkCreated(r) ==
    /\ ctx.recursion_columns[r] # NoneValue
    /\ ctx.recursion_columns[r].in_col # NoneValue

\* C25: for every Recurse node R and the unit U that defers it: the
\* recursive clause of R is built on the CTE of U, which exists by then, from
\* the link column U created, and sets R's outbound link column; the CTE of R
\* comes after its clause and after the CTE of U; R is joined to U only when
\* its CTE exists, its output fields are merged into U and its outbound
\* column is set, and the join is on the (inbound, outbound) pair. In the
\* first compilation the output fields of R leave R only when R's CTE exists.
C25_RecursionStepsInOrder ==
    \A r \in RecurseNodes :
        /\ \A c \in ClauseIndex(r) :
              /\ LinkCreated(r)
              /\ ctx.recursion_columns[r].out_col # NoneValue
              /\ \E u \in CteIndex(DeferringUnit(r)) :
                    /\ ctx.clauses[c].outer_cte = ctx.ctes[u].selectable
                    /\ ctx.clauses[c].link = ctx.recursion_columns[r].in_col.key
        /\ \A i \in CteIndex(r) :
              /\ ClauseIndex(r) # {}
              /\ \E u \in CteIndex(DeferringUnit(r)) : u < i
        /\ \A join \in RecursionJoins(r) :
              /\ r \notin tree.outputs.keys
              /\ \A n \in DOMAIN tin.tree.outputs.val[r] :
                    \E m \in DOMAIN DictGet(tree.outputs, DeferringUnit(r)) :
                       DictGet(tree.outputs, DeferringUnit(r))[m].alias
                           = tin.tree.outputs.val[r][n].alias
              /\ ctx.recursion_columns[r].out_col # NoneValue
              /\ join.onclause.left.name = ctx.recursion_columns[r].in_col.key
              /\ join.onclause.left.table.tbl = "cte"
              /\ join.onclause.right.name = ctx.recursion_columns[r].out_col.key
              /\ \E i \in CteIndex(r) : join.onclause.right.table = ctx.ctes[i].selectable
        /\ (Len(runs) = 0 /\ r \notin tree.outputs.keys) => CteIndex(r) # {}

\* The inner recursion of the nested tree is joined onto the CTE of the
\* outer one, which is not yet joined onto the CTE of the root.
C25_Witness ==
    /\ tin.shape = "nested"
    /\ Len(runs) = 0
    /\ DeferringUnit(3) = 2 /\ DeferringUnit(2) = 1
    /\ RecursionJoins(3) # {} /\ RecursionJoins(2) = {}
    /\ \E i \in CteIndex(1), j \in CteIndex(2), k \in CteIndex(3) : i < j /\ j < k
    /\ 3 \notin tree.outputs.keys /\ 2 \in tree.outputs.keys

\* The stringified value is none of the tokens of the path.
NotAToken(path, value) ==
    path = NullString
        \/ \A i \in DOMAIN Tokens(path) : Tokens(path)[i] # CastString(value)

\* The rows the recursive term yields from the last iteration when a step
\* is admitted exactly if the prior depth is below the bound and the new
\* value is no token of the prior path.
AdmittedByToken ==
    { [out |-> pair[1][rnames.out_edge_name], in |-> pair[2].in,
       depth |-> pair[2].depth + 1,
       path |-> Concat(Concat(pair[2].path, CastString(pair[1][rnames.out_edge_name])),
                       <<",">>)] :
        pair \in {q \in rin.table \X rwork :
                     /\ SqlEq(q[1][rnames.in_edge_name], q[2].out)
                     /\ q[2].depth < rin.depth
                     /\ NotAToken(q[2].path, q[1][rnames.out_edge_name])} }

\* C26: an iteration of the recursive term yields exactly the steps from
\* the rows of the last iteration whose depth is below the bound and whose
\* new value, as a string, is no token of the row's path; the recursion
\* stops when there is no such step.
C26_StepAdmittedUnlessToken ==
    [][(rphase = "recursive" /\ vars' # vars) =>
           IF rphase' = "done" THEN AdmittedByToken = {} ELSE rwork' = AdmittedByToken]_vars

\* The operands of the predicate as compiled on their own
CompiledLeft ==
    _expression_to_sql(xin.operators, xin.expression.left, ExpressionSelectable,
                       ExpressionContext)

CompiledRight ==
    _expression_to_sql(xin.operators, xin.expression.right, ExpressionSelectable,
                       ExpressionContext)

ExpressionDone == xres # Pending

OperandsCompiled == ~IsError(CompiledLeft) /\ ~IsError(CompiledRight)

CardinalityIs(cardinality) ==
    /\ xin.expression.operator \in DOMAIN xin.operators
    /\ xin.operators[xin.expression.operator].cardinality = cardinality

\* C27: for a SINGLE operator whose operands compile, the receiver of the
\* clause is the operand that is present when exactly one is absent, the
\* absent one being its argument, and AssertionError is raised when both are
\* absent.
C27_PresentOperandIsReceiver ==
    (ExpressionDone /\ CardinalityIs("SINGLE") /\ OperandsCompiled) =>
        /\ (CompiledLeft = NoneValue /\ CompiledRight = NoneValue)
               => xres = Raise("AssertionError")
        /\ (CompiledLeft = NoneValue /\ CompiledRight # NoneValue)
               => (xres.kind = "binary" /\ xres.left = CompiledRight /\ xres.right = NoneValue)
        /\ (CompiledLeft # NoneValue /\ CompiledRight = NoneValue)
               => (xres.kind = "binary" /\ xres.left = CompiledLeft /\ xres.right = NoneValue)

\* NULL = name: the column becomes the receiver.
C27_Witness ==
    /\ ExpressionDone
    /\ xin.expression = BinaryComposition("=", NullLiteral, LocalField("name"))
    /\ xres.kind = "binary"
    /\ xres.left = SqlColumn(ExpressionSelectable, "name")
    /\ xres.right = NoneValue

\* C28: for a MANY operator whose operands compile, a clause is produced
\* only when the left operand compiled to a bound parameter and the right to
\* a column; the column is then the receiver and the parameter, marked
\* expanding, its argument. Every other shape of operands raises
\* AssertionError, and so do an expression node of a kind that is not known
\* and an operator of a cardinality that is not known.
C28_ManyNeedsParameterAndColumn ==
    ExpressionDone =>
        /\ (CardinalityIs("MANY") /\ OperandsCompiled) =>
               IF CompiledLeft.kind = "bindparam" /\ CompiledRight.kind = "column"
               THEN /\ xres.kind = "binary"
                    /\ xres.left = CompiledRight
                    /\ xres.right = [CompiledLeft EXCEPT !.expanding = TRUE]
               ELSE xres = Raise("AssertionError")
        /\ (/\ xin.expression.operator \in DOMAIN xin.operators
            /\ xin.expression.left.kind = "FoldedContextField")
               => xres = Raise("AssertionError")
        /\ (CardinalityIs("TERNARY") /\ OperandsCompiled) => xres = Raise("AssertionError")

\* $v contains name: the column is the receiver of in_ and the parameter
\* expands.
C28_Witness ==
    /\ ExpressionDone
    /\ xin.expression = BinaryComposition("contains", Variable("$v"), LocalField("name"))
    /\ xres.kind = "binary" /\ xres.operator = "in_"
    /\ xres.left = SqlColumn(ExpressionSelectable, "name")
    /\ xres.right.expanding

\* The columns of the select list of a CTE have names of their own.
ColumnNamesUnique(cte) ==
    \A i, j \in DOMAIN cte.query.columns :
        i # j => cte.query.columns[i].key # cte.query.columns[j].key

\* C29: in the select list of every CTE produced for a materialization unit
\* no two columns have the same name, whether they are output aliases, tag
\* columns, link columns of the deferred recursions or the outbound link
\* column.
C29_ColumnNamesUnique ==
    \A i \in DOMAIN ctx.ctes : ColumnNamesUnique(ctx.ctes[i])

\* The compilation that ran last returned a query; the context is the one it
\* left.
CompletedSuccessfully ==
    stack = <<>> /\ runs # <<>> /\ runs[Len(runs)].kind = "query"

InputAliases ==
    UNION { {tin.tree.outputs.val[p][i].alias : i \in DOMAIN tin.tree.outputs.val[p]} :
              p \in DOMAIN tin.nodes }

RootOutputFields == DictGet(tree.outputs, 1)

CteOfUnit(unit) ==
    {ctx.ctes[i].selectable : i \in {k \in DOMAIN ctx.ctes : ctx.ctes[k].path = unit}}

\* C30: when a compilation has returned a query, the root is the only path
\* with a from clause and the only path with output fields, the output
\* fields of the root are the output aliases of the input tree, every one of
\* them marked as renamed, and the selectable of every scope is the CTE of
\* its materialization unit.
C30_ContextAfterCompilation ==
    CompletedSuccessfully =>
        /\ {p \in DOMAIN ctx.from_clause : ctx.from_clause[p] # NoneValue} = {1}
        /\ tree.outputs.keys = {1}
        /\ {RootOutputFields[i].alias : i \in DOMAIN RootOutputFields} = InputAliases
        /\ \A i \in DOMAIN RootOutputFields : RootOutputFields[i].is_renamed
        /\ \A p \in DOMAIN tin.nodes : CteOfUnit(UnitOf(p)) = {ctx.selectable[p]}

\* A tree with a child flattened onto the root and a recursion hoisted from
\* it has compiled, for the first time.
C30_Witness ==
    /\ CompletedSuccessfully
    /\ Len(runs) = 1
    /\ tin.shape = "hoisted"
    /\ tree.outputs.keys = {1}
    /\ Len(RootOutputFields) = 3
    /\ Len(ctx.ctes) = 2

====
